---- MODULE Spec2Model ----
(***************************************************************************)
(* The LinkedIn AI Reply Assistant: usage ledger and generation gateway,   *)
(* settings store, and the content script's injection engine.              *)
(*                                                                         *)
(* The privileged context (service worker) answers GENERATE_REPLY messages *)
(* with handleGenerateReply, which validates the post text, loads the      *)
(* settings, consumes one unit of the usage ledger (trackUsage) and calls  *)
(* the external generator.  Every `await` of the source is a point where   *)
(* another handler may run, so each handler is a process whose steps are   *)
(* the code between two awaits.  A storage call takes effect in the step   *)
(* that resumes from its await.                                            *)
(*                                                                         *)
(* The clock is Date.now() in milliseconds; it advances in steps of 1 ms   *)
(* or of one window, so that both sides of every expiry test are reached.  *)
(* Storage calls succeed except in SpecFault and SpecMsg.                   *)
(*                                                                         *)
(* Spec and SpecSeq are the service worker; SpecOps adds the manual reset, *)
(* the limit changes and the usage display of the other pages; SpecFault   *)
(* adds storage calls that fail; SpecMsg is the onMessage listener with    *)
(* all its message types; SpecRestart tears the worker down between        *)
(* messages; SpecClock lets the clock go on between two readings of one    *)
(* handler.  SpecPrefs is the settings store (saveSettings, getSettings,   *)
(* the options form).  SpecScan is the content script scanning a page that *)
(* changes under it, with time in steps of 100 ms; SpecControl is one      *)
(* action control, its user and the message transport; SpecResilient adds  *)
(* injection that throws; SpecEndToEnd joins the control to the service    *)
(* worker that answers it; SpecInsert is the insertion of a reply into the *)
(* comment box.  Each specification leaves the variables of the other      *)
(* parts at rest.                                                          *)
(***************************************************************************)
EXTENDS Integers, Sequences, FiniteSets, TLC

\* ---------------------------------------------------------------- bounds
NumProc == 2         \* invocations (messages handled) in one behaviour
MaxTicks == 1        \* advances of the clock in one behaviour
MaxBoxes == 1        \* comment areas in the page at one time
MaxBurst == 2        \* mutations counted in one burst
MaxErrTimers == 2    \* error displays of one control still to end
MaxRestarts == 1     \* restarts of the service worker in one behaviour
MaxLen == 2          \* characters of a text inserted into the comment box
NumIns == 2          \* insert actions in one behaviour
MaxPings == 2        \* ticks of the keep-alive timer in one behaviour

\* ------------------------------------------------------ program constants
DAY_MS == 24 * 60 * 60 * 1000      \* length of the usage window
HOUR_MS == 1000 * 60 * 60
MINUTE_MS == 1000 * 60
DEFAULT_RATE_LIMIT == 50     \* DEFAULT_SETTINGS.rateLimit
MIN_POST_LEN == 5            \* validatePostText lower bound
MAX_POST_LEN == 10000        \* validatePostText upper bound

\* Each invocation is a handleGenerateReply ("reply") or a checkRateLimit
\* ("check", a read of the ledger with roll).
Procs == 1..NumProc

None == [none |-> TRUE]      \* an absent value (undefined)

\* -------------------------------------------------------------- messages
\* An error message is a sequence of text fragments; String.includes(s) is
\* modelled at the granularity of these fragments.
Includes(msg, frag) == \E i \in 1..Len(msg) : msg[i] = frag

\* ------------------------------------------------------------- post text
\* A post text is absent (undefined, null, not a string) or a string made
\* of `ws` surrounding white-space characters and `len` other characters.
Text(ws, len) == [missing |-> FALSE, ws |-> ws, len |-> len]
MissingText == [missing |-> TRUE, ws |-> 0, len |-> 0]
RawLength(t) == t.ws + t.len
TrimLength(t) == t.len

\* The post texts of the requests: every way of being rejected, both sides
\* of each length limit, and one accepted text.
Texts ==
  { MissingText, Text(0, 0), Text(1, 0), Text(0, MIN_POST_LEN - 1),
    Text(1, MIN_POST_LEN - 1), Text(0, MAX_POST_LEN + 1),
    Text(1, MIN_POST_LEN) }

\* validatePostText: the message of the error it throws, or <<>> when it
\* returns normally.
validatePostTextNoTrim(t) ==
  IF t.missing \/ RawLength(t) = 0
    THEN << "Post text must be a non-empty string" >>
  ELSE IF RawLength(t) < MIN_POST_LEN
    THEN << "Post text is too short (minimum 5 characters)" >>
  ELSE IF RawLength(t) > MAX_POST_LEN
    THEN << "Post text is too long (maximum 10000 characters)" >>
  ELSE << >>

validatePostText(t) ==
  IF t.missing \/ RawLength(t) = 0
    THEN << "Post text must be a non-empty string" >>
  ELSE IF TrimLength(t) = 0
    THEN << "Post text cannot be empty" >>
  ELSE IF TrimLength(t) < MIN_POST_LEN
    THEN << "Post text is too short (minimum 5 characters)" >>
  ELSE IF TrimLength(t) > MAX_POST_LEN
    THEN << "Post text is too long (maximum 10000 characters)" >>
  ELSE << >>

\* -------------------------------------------------------------- settings
\* The API key is "" (not configured), "blank" (white space only) or "key".
ApiKeys == { "", "blank", "key" }
KeyTrimLength(k) == IF k = "key" THEN 3 ELSE 0
KeyLength(k) == IF k = "" THEN 0 ELSE 3

RateLimits == { 1, 2 }
SettingsSet == [apiKey : ApiKeys, rateLimit : RateLimits]

\* `!settings.apiKey || settings.apiKey.trim().length === 0`
ApiKeyMissingNoTrim(s) == KeyLength(s.apiKey) = 0

ApiKeyMissing(s) == KeyLength(s.apiKey) = 0 \/ KeyTrimLength(s.apiKey) = 0

\* ---------------------------------------------------------- usage record
Usage(c, d, l) == [count |-> c, resetDate |-> d, limit |-> l]

\* getUsage: the stored record, or a fresh default when nothing is stored.
getUsage(stored, t) ==
  IF stored = None THEN Usage(0, t + DAY_MS, DEFAULT_RATE_LIMIT) ELSE stored

\* getTimeUntilReset: 'now' or the hours and minutes left.
getTimeUntilResetStrict(resetDate, t) ==
  LET diff == resetDate - t
      hours == diff \div HOUR_MS
      minutes == (diff % HOUR_MS) \div MINUTE_MS
      seconds == diff \div 1000
  IN  IF diff < 0 THEN "now"
      ELSE IF hours > 0 THEN ToString(hours) \o "h " \o ToString(minutes) \o "m"
      ELSE IF minutes > 0 THEN ToString(minutes) \o "m"
      ELSE ToString(seconds) \o "s"

getTimeUntilReset(resetDate, t) ==
  LET diff == resetDate - t
      hours == diff \div HOUR_MS
      minutes == (diff % HOUR_MS) \div MINUTE_MS
      seconds == diff \div 1000
  IN  IF diff <= 0 THEN "now"
      ELSE IF hours > 0 THEN ToString(hours) \o "h " \o ToString(minutes) \o "m"
      ELSE IF minutes > 0 THEN ToString(minutes) \o "m"
      ELSE ToString(seconds) \o "s"

\* The message of the error trackUsage throws at the limit.
RateLimitMessage(u, t) ==
  << "Rate limit", " reached. Resets in ", getTimeUntilReset(u.resetDate, t),
     ". Current usage: ", ToString(u.count), "/", ToString(u.limit) >>

\* ------------------------------------------------------------- generator
\* callGeminiAPI resolves with a reply or rejects with the provider's
\* message, surfaced verbatim.
ProviderMessages ==
  { << "Network error" >>,
    << "Rate limit", " exceeded for this API key" >> }
Outcomes == { [ok |-> TRUE, msg |-> << >>] }
            \cup { [ok |-> FALSE, msg |-> m] : m \in ProviderMessages }

\* ------------------------------------------------------------- responses
NoCount == -1
\* `reply` of handleGenerateReply: the text callGeminiAPI resolved with,
\* never empty ("" stands for a response without the field).
GeneratedText == "Thanks for sharing!"
SuccessResponse(n) ==
  [success |-> TRUE, error |-> << >>, usageCount |-> n,
   rateLimitReached |-> FALSE, reply |-> GeneratedText]
\* the catch block of handleGenerateReply
ErrorResponseLower(msg) ==
  [success |-> FALSE, error |-> msg, usageCount |-> NoCount,
   rateLimitReached |-> Includes(msg, "rate limit"), reply |-> ""]

ErrorResponse(msg) ==
  [success |-> FALSE, error |-> msg, usageCount |-> NoCount,
   rateLimitReached |-> Includes(msg, "Rate limit"), reply |-> ""]

\* ------------------------------------------------------------- JS values
\* A value of a settings field: undefined (also a field that is absent),
\* a number, NaN, a string or a boolean, told apart as `typeof` does.
Undefined == [t |-> "undefined", nan |-> FALSE, n |-> 0, s |-> ""]
Null == [t |-> "object", nan |-> FALSE, n |-> 0, s |-> ""]
Num(n) == [t |-> "number", nan |-> FALSE, n |-> n, s |-> ""]
NaN == [t |-> "number", nan |-> TRUE, n |-> 0, s |-> ""]
Str(s) == [t |-> "string", nan |-> FALSE, n |-> 0, s |-> s]
Bool(b) == [t |-> "boolean", nan |-> FALSE, n |-> IF b THEN 1 ELSE 0, s |-> ""]

\* ----------------------------------------------------------- preferences
SettingsFields ==
  { "apiKey", "tone", "maxLength", "defaultAction", "rateLimit",
    "stealthMode" }

DEFAULT_SETTINGS ==
  [apiKey |-> Str(""), tone |-> Str("professional"), maxLength |-> Num(500),
   defaultAction |-> Str("insert"), rateLimit |-> Num(DEFAULT_RATE_LIMIT),
   stealthMode |-> Bool(TRUE)]

validTones == { "polite", "professional", "friendly", "concise" }
validActions == { "insert", "copy" }
MIN_MAX_LENGTH == 100
MAX_MAX_LENGTH == 1000
MIN_RATE_LIMIT == 1
MAX_RATE_LIMIT == 10000
MIN_API_KEY_LEN == 10

\* validateSettings: the message of the error it throws, or "" when it
\* returns normally.  A field is checked only when it is not undefined.
validateSettingsOpenEnded(r) ==
  IF r.apiKey # Undefined /\ r.apiKey.t # "string"
    THEN "API key must be a string"
  ELSE IF r.apiKey # Undefined /\ Len(r.apiKey.s) > 0
          /\ Len(r.apiKey.s) < MIN_API_KEY_LEN
    THEN "API key appears to be invalid (too short)"
  ELSE IF r.tone # Undefined
          /\ ~(r.tone.t = "string" /\ r.tone.s \in validTones)
    THEN "Invalid tone. Must be one of: polite, professional, friendly, concise"
  ELSE IF r.maxLength # Undefined
          /\ (r.maxLength.t # "number" \/ r.maxLength.nan)
    THEN "Max length must be a number"
  ELSE IF r.maxLength # Undefined /\ r.maxLength.n < MIN_MAX_LENGTH
    THEN "Max length must be between 100 and 1000 characters"
  ELSE IF r.defaultAction # Undefined
          /\ ~(r.defaultAction.t = "string"
               /\ r.defaultAction.s \in validActions)
    THEN "Invalid default action. Must be one of: insert, copy"
  ELSE IF r.rateLimit # Undefined
          /\ (r.rateLimit.t # "number" \/ r.rateLimit.nan)
    THEN "Rate limit must be a number"
  ELSE IF r.rateLimit # Undefined /\ r.rateLimit.n < MIN_RATE_LIMIT
    THEN "Rate limit must be between 1 and 10000"
  ELSE ""

validateSettings(r) ==
  IF r.apiKey # Undefined /\ r.apiKey.t # "string"
    THEN "API key must be a string"
  ELSE IF r.apiKey # Undefined /\ Len(r.apiKey.s) > 0
          /\ Len(r.apiKey.s) < MIN_API_KEY_LEN
    THEN "API key appears to be invalid (too short)"
  ELSE IF r.tone # Undefined
          /\ ~(r.tone.t = "string" /\ r.tone.s \in validTones)
    THEN "Invalid tone. Must be one of: polite, professional, friendly, concise"
  ELSE IF r.maxLength # Undefined
          /\ (r.maxLength.t # "number" \/ r.maxLength.nan)
    THEN "Max length must be a number"
  ELSE IF r.maxLength # Undefined
          /\ (r.maxLength.n < MIN_MAX_LENGTH \/ r.maxLength.n > MAX_MAX_LENGTH)
    THEN "Max length must be between 100 and 1000 characters"
  ELSE IF r.defaultAction # Undefined
          /\ ~(r.defaultAction.t = "string"
               /\ r.defaultAction.s \in validActions)
    THEN "Invalid default action. Must be one of: insert, copy"
  ELSE IF r.rateLimit # Undefined
          /\ (r.rateLimit.t # "number" \/ r.rateLimit.nan)
    THEN "Rate limit must be a number"
  ELSE IF r.rateLimit # Undefined
          /\ (r.rateLimit.n < MIN_RATE_LIMIT \/ r.rateLimit.n > MAX_RATE_LIMIT)
    THEN "Rate limit must be between 1 and 10000"
  ELSE ""

\* What chrome.storage keeps of a record handed to set(): the JSON form,
\* in which NaN becomes null and an undefined field is dropped.
Serialize(r) ==
  [f \in SettingsFields |-> IF r[f].t = "number" /\ r[f].nan THEN Null ELSE r[f]]

\* saveSettings(r) on the stored value st: the message of the error thrown
\* ("" when none) and the value stored afterwards.
saveSettingsUnchecked(st, r) == [threw |-> "", sync |-> Serialize(r)]

saveSettings(st, r) ==
  IF validateSettings(r) # ""
    THEN [threw |-> "Failed to save settings", sync |-> st]
    ELSE [threw |-> "", sync |-> Serialize(r)]

\* getSettings: `{ ...DEFAULT_SETTINGS, ...data.settings }`.
getSettingsDefaultsWin(st) == DEFAULT_SETTINGS

getSettings(st) ==
  IF st = None THEN DEFAULT_SETTINGS
  ELSE [f \in SettingsFields |->
          IF st[f] = Undefined THEN DEFAULT_SETTINGS[f] ELSE st[f]]

\* The records handed to saveSettings: a full record and the empty one,
\* each with one field replaced by every kind of value the field can take,
\* both sides of each limit among them.
BaseRecord ==
  [apiKey |-> Str("AIzaSy-0123456789"), tone |-> Str("polite"),
   maxLength |-> Num(100), defaultAction |-> Str("copy"),
   rateLimit |-> Num(1), stealthMode |-> Bool(FALSE)]
EmptyRecord == [f \in SettingsFields |-> Undefined]

FieldValues(f) ==
  CASE f = "apiKey" -> { Undefined, Str(""), Str("short"), Num(7) }
    [] f = "tone" -> { Undefined, Str("friendly"), Str("angry") }
    [] f = "maxLength" ->
         { Undefined, Num(MIN_MAX_LENGTH - 1), Num(MIN_MAX_LENGTH),
           Num(MAX_MAX_LENGTH), Num(MAX_MAX_LENGTH + 1), NaN, Str("500") }
    [] f = "defaultAction" -> { Undefined, Str("insert"), Str("paste") }
    [] f = "rateLimit" ->
         { Undefined, Num(MIN_RATE_LIMIT - 1), Num(MIN_RATE_LIMIT),
           Num(MAX_RATE_LIMIT), Num(MAX_RATE_LIMIT + 1), NaN, Str("50") }
    [] f = "stealthMode" -> { Undefined, Bool(TRUE) }

SettingsInputs ==
  UNION { { [b EXCEPT ![f] = v] : v \in FieldValues(f) } :
          b \in { BaseRecord, EmptyRecord }, f \in SettingsFields }

\* The options form: the checked tone and action radios (undefined when
\* none is checked) and the texts of the inputs.
BaseForm ==
  [apiKey |-> Str(" AIzaSy-0123456789 "), tone |-> Str("concise"),
   maxLength |-> Str("1000"), defaultAction |-> Str("insert"),
   rateLimit |-> Str("10000"), stealthMode |-> Bool(TRUE)]

FormValues(f) ==
  CASE f = "apiKey" -> { Str(""), Str(" short ") }
    [] f = "tone" -> { Undefined }
    [] f = "maxLength" -> { Str("99"), Str("100"), Str("1001") }
    [] f = "defaultAction" -> { Undefined }
    [] f = "rateLimit" ->
         { Str(""), Str("0"), Str("1"), Str("10001"), Str("2.9") }
    [] f = "stealthMode" -> { Bool(FALSE) }

FormInputs ==
  UNION { { [BaseForm EXCEPT ![f] = v] : v \in FormValues(f) } :
          f \in SettingsFields }

\* parseInt and String.trim on the texts of the form.
ParseInt(v) ==
  CASE v.s = "" -> NaN
    [] v.s = "0" -> Num(0)
    [] v.s = "1" -> Num(1)
    [] v.s = "2.9" -> Num(2)
    [] v.s = "99" -> Num(99)
    [] v.s = "100" -> Num(100)
    [] v.s = "1000" -> Num(1000)
    [] v.s = "1001" -> Num(1001)
    [] v.s = "10000" -> Num(10000)
    [] v.s = "10001" -> Num(10001)

Trim(v) ==
  CASE v.s = " AIzaSy-0123456789 " -> Str("AIzaSy-0123456789")
    [] v.s = " short " -> Str("short")
    [] OTHER -> v

\* The record saveSettingsFromUI builds from the form.
FormRecord(form) ==
  [apiKey |-> Trim(form.apiKey), tone |-> form.tone,
   maxLength |-> ParseInt(form.maxLength),
   defaultAction |-> form.defaultAction,
   rateLimit |-> ParseInt(form.rateLimit), stealthMode |-> form.stealthMode]

\* `a < b` of JavaScript on a parsed number: false when it is NaN.
JsLess(v, k) == ~v.nan /\ v.n < k
JsGreater(v, k) == ~v.nan /\ v.n > k

\* saveSettingsFromUI on the stored value st: the notification it shows,
\* whether that is an error, and the value stored afterwards.
saveSettingsFromUI(st, form) ==
  LET r == FormRecord(form)
      fail(m) == [threw |-> m, sync |-> st]
  IN  IF form.tone = Undefined THEN fail("Please select a tone")
      ELSE IF form.defaultAction = Undefined
        THEN fail("Please select a default action")
      ELSE IF JsLess(r.maxLength, MIN_MAX_LENGTH)
              \/ JsGreater(r.maxLength, MAX_MAX_LENGTH)
        THEN fail("Max length must be between 100 and 1000")
      ELSE IF JsLess(r.rateLimit, MIN_RATE_LIMIT)
        THEN fail("Rate limit must be at least 1")
      ELSE saveSettings(st, r)

NoOp == [op |-> "none", arg |-> EmptyRecord, threw |-> "", ret |-> EmptyRecord]

\* ------------------------------------------------------------ host page
\* The skeleton of the page: comment areas as LinkedIn renders them,
\* numbered in document order.  Node 1 is a comment box holding a plain
\* form (2).  Node 3 is a comment box holding the form 4, which also
\* matches the comment-box locator and holds the toolbar 5.  Node 6 is a
\* comment box holding a second element matched by the locator (7) and,
\* next to it, the toolbar 8.
Nodes == 1..8
PageRoots == { 1, 3, 6 }
Parent(n) ==
  CASE n = 2 -> 1
    [] n = 4 -> 3
    [] n = 5 -> 4
    [] n = 7 -> 6
    [] n = 8 -> 6
    [] OTHER -> 0
\* SELECTORS.commentBox, the toolbar locators of findInsertionPoint, `form`
CommentBoxNodes == { 1, 3, 4, 6, 7 }
ToolbarNodes == { 5, 8 }
FormNodes == { 2, 4 }

RECURSIVE Ancestors(_)
Ancestors(n) ==
  IF Parent(n) = 0 THEN { } ELSE { Parent(n) } \cup Ancestors(Parent(n))
Descendants(b) == { n \in Nodes : b \in Ancestors(n) }
RootOf(n) == CHOOSE r \in PageRoots : r = n \/ r \in Ancestors(n)
First(S) == CHOOSE x \in S : \A y \in S : x <= y

\* An action control: disabled and aria-busy (busy), the error class
\* (error), the pending timers that remove the error class (errTimers) and
\* the GENERATE_REPLY messages sent and not yet called back (chan), each
\* "sent" or the outcome the transport has ready for the callback.
IdleControl == [busy |-> FALSE, error |-> FALSE, errTimers |-> 0, chan |-> << >>]
NoControls == [n \in Nodes |-> None]

\* document.querySelectorAll(SELECTORS.commentBox), in document order
findCommentBoxes(bx) == { n \in CommentBoxNodes : RootOf(n) \in bx }

\* commentBox.querySelector(".ai-reply-btn") !== null
hasButtonInjectedAsChild(c, b) == c[b] # None

hasButtonInjected(c, b) == \E n \in Descendants(b) \cup { b } : c[n] # None

\* (the form looked up with closest(): the box or an ancestor of it)
findInsertionPointClosest(b) ==
  IF Descendants(b) \cap ToolbarNodes # { }
    THEN First(Descendants(b) \cap ToolbarNodes)
  ELSE IF (Ancestors(b) \cup { b }) \cap FormNodes # { }
    THEN First((Ancestors(b) \cup { b }) \cap FormNodes)
  ELSE b

findInsertionPoint(b) ==
  IF Descendants(b) \cap ToolbarNodes # { }
    THEN First(Descendants(b) \cap ToolbarNodes)
  ELSE IF Descendants(b) \cap FormNodes # { }
    THEN First(Descendants(b) \cap FormNodes)
  ELSE b

\* The forEach of injectButtons from node n on: a box with no control
\* inside gets one appended to its insertion point.
RECURSIVE injectFrom(_, _, _)
injectFrom(c, bx, n) ==
  IF n \notin Nodes THEN c
  ELSE IF n \in findCommentBoxes(bx) /\ ~hasButtonInjected(c, n)
    THEN injectFrom([c EXCEPT ![findInsertionPoint(n)] = IdleControl], bx, n + 1)
  ELSE injectFrom(c, bx, n + 1)

injectButtons(c, bx) == injectFrom(c, bx, 1)

\* `injectedCount` of that forEach: the controls it appends.
RECURSIVE injectedFrom(_, _, _)
injectedFrom(c, bx, n) ==
  IF n \notin Nodes THEN 0
  ELSE IF n \in findCommentBoxes(bx) /\ ~hasButtonInjected(c, n)
    THEN 1 + injectedFrom([c EXCEPT ![findInsertionPoint(n)] = IdleControl],
                          bx, n + 1)
  ELSE injectedFrom(c, bx, n + 1)

injectedCount(c, bx) == injectedFrom(c, bx, 1)

\* Where the forEach of injectButtons goes on after the injection into box
\* n threw: the catch block is inside the callback, so with the next box.
AfterThrowLeavesLoop(n) == Cardinality(Nodes) + 1

AfterThrow(n) == n + 1

\* The forEach of injectButtons when injecting into the boxes F throws
\* (createAIButton, findInsertionPoint or appendChild fails there).
RECURSIVE injectFromExcept(_, _, _, _)
injectFromExcept(c, bx, F, n) ==
  IF n \notin Nodes THEN c
  ELSE IF n \in findCommentBoxes(bx) /\ ~hasButtonInjected(c, n)
    THEN IF n \in F
           THEN injectFromExcept(c, bx, F, AfterThrow(n))
           ELSE injectFromExcept(
                  [c EXCEPT ![findInsertionPoint(n)] = IdleControl],
                  bx, F, n + 1)
  ELSE injectFromExcept(c, bx, F, n + 1)

injectButtonsExcept(c, bx, F) == injectFromExcept(c, bx, F, 1)

\* The boxes in which that forEach caught an exception
\* (console.error "Failed to inject button").
RECURSIVE thrownFrom(_, _, _, _)
thrownFrom(c, bx, F, n) ==
  IF n \notin Nodes THEN { }
  ELSE IF n \in findCommentBoxes(bx) /\ ~hasButtonInjected(c, n)
    THEN IF n \in F
           THEN { n } \cup thrownFrom(c, bx, F, AfterThrow(n))
           ELSE thrownFrom(
                  [c EXCEPT ![findInsertionPoint(n)] = IdleControl],
                  bx, F, n + 1)
  ELSE thrownFrom(c, bx, F, n + 1)

\* ---------------------------------------------------------- the post
\* What the locators find around a comment box: the post container
\* (element.closest), and inside it the content, author and date elements
\* with their text, None where the locator matches nothing.
Post(container, content, author, date) ==
  [container |-> container, content |-> content, author |-> author,
   date |-> date]
Posts ==
  { Post(FALSE, None, None, None),
    Post(TRUE, None, Text(0, 3), Text(0, 2)),
    Post(TRUE, Text(2, 0), Text(0, 3), None),
    Post(TRUE, Text(1, MIN_POST_LEN), None, None),
    Post(TRUE, Text(1, MIN_POST_LEN), Text(1, 0), Text(0, 2)),
    Post(TRUE, Text(1, MIN_POST_LEN), Text(0, 3), Text(0, 2)) }

\* String.prototype.trim
TrimText(t) == Text(0, TrimLength(t))
EmptyText == Text(0, 0)

\* extractPostText: "" when the container or the content is not found
extractPostText(d) ==
  IF ~d.container THEN EmptyText
  ELSE IF d.content = None THEN EmptyText
  ELSE TrimText(d.content)

\* extractAuthorName, extractPostDate on the element e of the post d:
\* undefined when it is not found or holds no text
extractOptional(d, e) ==
  IF ~d.container THEN Undefined
  ELSE IF e = None THEN Undefined
  ELSE IF TrimLength(e) = 0 THEN Undefined
  ELSE TrimText(e)

extractPostData(d) ==
  [postText |-> extractPostText(d),
   authorName |-> extractOptional(d, d.author),
   postDate |-> extractOptional(d, d.date)]

\* !postData.postText || postData.postText.trim().length === 0
NoPostDataUnlessComplete(pd) ==
  \/ RawLength(pd.postText) = 0
  \/ TrimLength(pd.postText) = 0
  \/ pd.authorName = Undefined
  \/ pd.postDate = Undefined

NoPostText(pd) == RawLength(pd.postText) = 0 \/ TrimLength(pd.postText) = 0

\* ReplyModal.show(reply, usageCount, 50, commentBox) as displayReply calls
\* it: what the modal displays.
DEFAULT_USAGE_LIMIT == 50
OrZero(n) == IF n = NoCount THEN 0 ELSE n
displayReplyNoCount(reply, usageCount) ==
  [reply |-> reply, usageCount |-> 0, usageLimit |-> DEFAULT_USAGE_LIMIT]

displayReply(reply, usageCount) ==
  [reply |-> reply, usageCount |-> usageCount,
   usageLimit |-> DEFAULT_USAGE_LIMIT]

\* The ReplyModal objects of the page: those whose element is in
\* document.body (attached) and the one `currentModal` refers to (0 for
\* null).  A new object gets the first id that no modal in the page holds;
\* an object that is hidden and no longer current is garbage.
ModalIds == 1..3
NoModals == [attached |-> { }, current |-> 0]
FreshModal(S) == CHOOSE m \in ModalIds \ S : \A k \in ModalIds \ S : m <= k

\* displayReply on the modals ms: `if (currentModal) currentModal.hide()`,
\* then a new ReplyModal is made the current one and shown.
showReplyModalKeepsOld(ms) ==
  [attached |-> ms.attached \cup { FreshModal(ms.attached) },
   current |-> FreshModal(ms.attached)]

showReplyModal(ms) ==
  [attached |-> (ms.attached \ { ms.current })
                  \cup { FreshModal(ms.attached \ { ms.current }) },
   current |-> FreshModal(ms.attached \ { ms.current })]

DEBOUNCE_MS == 300           \* delay of the rescan timer
TICK_MS == 100               \* granularity of time in the page
TimerIds == 1..4             \* ids handed out by window.setTimeout

EXTRACT_ERROR == << "Could not extract post text" >>
CHANNEL_ERROR ==
  << "Could not establish connection. Receiving end does not exist." >>
GENERIC_ERROR == << "Failed to generate reply" >>
\* message of the TypeError thrown by `response.success` on undefined
TYPE_ERROR == << "Cannot read properties of undefined (reading 'success')" >>

\* ------------------------------------------------------------------ state
VARIABLES
  now,       \* Date.now()
  ticks,     \* advances of the clock so far
  settings,  \* chrome.storage.sync 'settings', merged over the defaults
  usage,     \* chrome.storage.local 'usage', None when nothing is stored
  pc,        \* position of each invocation
  loc,       \* locals of each invocation, and what it has done so far
  last,      \* the invocation that finished most recently and its answer
  keepAliveInterval,  \* `keepAliveInterval` of the service worker, 0 for null
  keepAliveTimers,    \* setInterval timers alive in the service worker
  pings,     \* chrome.runtime.getPlatformInfo calls of the keep-alive so far
  restarts,  \* times the service worker was torn down and loaded again
  sync,      \* chrome.storage.sync 'settings' as stored, None when absent
  lastOp,    \* the settings operation that ran most recently
  boxes,     \* the comment areas (roots of the page skeleton) in the page
  ctl,       \* the action control appended to each anchor, None when absent
  timers,    \* the pending window.setTimeout timers of the content script
  debounceTimer,  \* `debounceTimer`: id of the timer set last, 0 for null
  sinceMutation,  \* ms since the last observed mutation, up to DEBOUNCE_MS
  burst,     \* mutations coalesced into the timer set last, up to MaxBurst
  scans,     \* injectButtons passes since the page last changed
  notice,    \* message of the error toast shown last, << >> before any
  toasts,    \* the error toasts in document.body
  modal,     \* what the reply modal in document.body displays, or None
  modals,    \* the modal elements in document.body, and `currentModal`
  faulty,    \* the boxes in which the pass run last caught an exception
  extracted, \* `postData` of the click handled last, None before any
  request,   \* the GENERATE_REPLY message sent last, None before any
  content,   \* textContent of the comment box's editor
  ins        \* the insert actions: position, text, events fired so far

workerVars == << keepAliveInterval, keepAliveTimers, pings, restarts >>
ledgerVars == << now, ticks, settings, usage, pc, loc, last, workerVars >>
prefsVars == << sync, lastOp >>
reportVars == << toasts, modal, modals, faulty, extracted, request >>
editorVars == << content, ins >>
scriptVars ==
  << boxes, ctl, timers, debounceTimer, sinceMutation, burst, scans, notice,
     reportVars >>
pageVars == << scriptVars, editorVars >>
vars == << ledgerVars, prefsVars, pageVars >>

\* kind: "reply" or "check";  text: request.payload.postText;
\* cfg: `settings` of handleGenerateReply;  tNow: `now` of
\* resetUsageIfExpired;  seen: the record getUsage returned;  rec: the usage
\* object in hand (`resetUsage`, then `usage` of trackUsage);
\* reads, writes: accesses to the stored usage record;  gen: calls of the
\* generator;  tracked: trackUsage was called;  denied: trackUsage threw at
\* the limit;  out: how the generator settled;  arg: `newLimit` of
\* updateRateLimit;  fault: the storage call that failed ("read", "write")
\* or "none";  answers: calls of sendResponse for the message.
NoLoc ==
  [kind |-> "none", text |-> MissingText, cfg |-> None, tNow |-> 0,
   seen |-> None, rec |-> None, reads |-> 0, writes |-> 0, gen |-> 0,
   tracked |-> FALSE, denied |-> FALSE, out |-> None, arg |-> 0,
   fault |-> "none", answers |-> 0]

\* Usage records the ledger can hold when the first message arrives: none
\* yet, or one left by earlier requests and limit changes, 1 ms before its
\* window ends.
InitUsages == { None } \cup { Usage(c, 1, 2) : c \in 0..3 }

\* startKeepAlive on the handle k: an interval is set unless one is held.
\* The first timer of a worker has id 1.
startKeepAlive(k) == IF k # 0 THEN k ELSE 1

\* The interval timers alive after startKeepAlive on the handle k with t
\* timers alive: `if (keepAliveInterval) return;`, else one more.
startKeepAliveTimersUnguarded(k, t) == t + 1

startKeepAliveTimers(k, t) == IF k # 0 THEN t ELSE t + 1

\* The service worker script has run: no handle and no timer yet, then
\* startKeepAlive().
WorkerLoaded ==
  /\ keepAliveInterval = startKeepAlive(0)
  /\ keepAliveTimers = startKeepAliveTimers(0, 0)
  /\ pings = 0
  /\ restarts = 0

\* An insert action: pc is "idle", "sleep" (simulateTyping awaits its
\* initial delay), "typing" (it awaits the delay after character i) or
\* "done";  text: the text to insert;  fired: the events it has dispatched
\* on the editor;  ok: what insertTextIntoCommentBox returned.
Insertions == 1..NumIns
NoInsertion ==
  [pc |-> "idle", text |-> << >>, i |-> 0, fired |-> << >>, ok |-> FALSE]

\* The comment box's editor is empty and nothing is inserted.
EditorAtRest == content = << >> /\ ins = [k \in Insertions |-> NoInsertion]

\* The settings store, the page and the ledger when they take no part.
PrefsAtRest == sync = None /\ lastOp = NoOp

PageAtRest ==
  /\ boxes = { }
  /\ ctl = NoControls
  /\ timers = { }
  /\ debounceTimer = 0
  /\ sinceMutation = DEBOUNCE_MS
  /\ burst = 0
  /\ scans = 0
  /\ notice = << >>
  /\ toasts = { }
  /\ modal = None
  /\ modals = NoModals
  /\ faulty = { }
  /\ extracted = None
  /\ request = None
  /\ EditorAtRest

LedgerAtRest ==
  /\ now = 0
  /\ ticks = 0
  /\ settings = [apiKey |-> "key", rateLimit |-> 2]
  /\ usage = None
  /\ pc = [p \in Procs |-> "idle"]
  /\ loc = [p \in Procs |-> NoLoc]
  /\ last = [loc |-> NoLoc, resp |-> None]
  /\ WorkerLoaded

Init ==
  /\ now = 0
  /\ ticks = 0
  /\ settings \in SettingsSet
  /\ usage \in InitUsages
  /\ pc = [p \in Procs |-> "idle"]
  /\ loc = [p \in Procs |-> NoLoc]
  /\ last = [loc |-> NoLoc, resp |-> None]
  /\ WorkerLoaded
  /\ PrefsAtRest
  /\ PageAtRest

\* --------------------------------------------------------------- actions
\* Invocation p goes on to its next await with locals l.
Continue(p, to, l) ==
  /\ pc' = [pc EXCEPT ![p] = to]
  /\ loc' = [loc EXCEPT ![p] = l]
  /\ UNCHANGED last

\* The kinds of invocation started by a message the listener handles
\* (GENERATE_REPLY, GET_SETTINGS); the others are a message of another type
\* ("unknown") and calls of a ledger function.
MessageKinds == { "reply", "settings" }

\* What the onMessage listener returns for a message: true keeps the
\* channel open for a later sendResponse.
ListenerReturnsReplyOnly(kind) == kind = "reply"

ListenerReturns(kind) == kind \in MessageKinds

\* Invocation p ends with locals l and answers r: the value a function
\* returns, or for a message the response handed to sendResponse, which
\* reaches the sender when the listener has kept the channel open.
Finish(p, l, r) ==
  /\ pc' = [pc EXCEPT ![p] = "done"]
  /\ loc' = [loc EXCEPT ![p] = NoLoc]
  /\ last' = [loc |-> [l EXCEPT !.answers =
                                 IF ListenerReturns(l.kind) THEN @ + 1 ELSE @],
              resp |-> r]

\* Invocations are numbered in their order of arrival.
Arrives(p) == pc[p] = "idle" /\ \A q \in 1..(p - 1) : pc[q] # "idle"

\* Time passes.
Tick(d) ==
  /\ ticks < MaxTicks
  /\ ticks' = ticks + 1
  /\ now' = now + d
  /\ UNCHANGED << settings, usage, pc, loc, last, workerVars,
                  prefsVars, pageVars >>

\* The onMessage listener receives GENERATE_REPLY and handleGenerateReply
\* runs up to `await getSettings()`.
Receive(p, t) ==
  /\ Arrives(p)
  /\ LET l == [NoLoc EXCEPT !.kind = "reply", !.text = t]
     IN  IF validatePostText(t) # << >>
           THEN Finish(p, l, ErrorResponse(validatePostText(t)))
           ELSE Continue(p, "getSettings", l)
  /\ keepAliveInterval' = startKeepAlive(keepAliveInterval)
  /\ keepAliveTimers' = startKeepAliveTimers(keepAliveInterval, keepAliveTimers)
  /\ pings' = pings
  /\ UNCHANGED << now, ticks, settings, usage, restarts, prefsVars, pageVars >>

\* getSettings resolves; the API key is checked and trackUsage is called,
\* which runs up to `await chrome.storage.local.get('usage')`.
LoadSettings(p) ==
  /\ pc[p] = "getSettings"
  /\ LET l == [loc[p] EXCEPT !.cfg = settings]
     IN  IF ApiKeyMissing(settings)
           THEN Finish(p, l, ErrorResponse(<< "API key not configured" >>))
           ELSE Continue(p, "getUsage", [l EXCEPT !.tracked = TRUE])
  /\ UNCHANGED << now, ticks, settings, usage, workerVars,
                  prefsVars, pageVars >>

\* checkRateLimit is called and runs up to
\* `await chrome.storage.local.get('usage')`.
StartCheck(p) ==
  /\ Arrives(p)
  /\ Continue(p, "getUsage", [NoLoc EXCEPT !.kind = "check"])
  /\ UNCHANGED << now, ticks, settings, usage, workerVars,
                  prefsVars, pageVars >>

\* What checkRateLimit returns for the record u.
CheckResult(u, t) ==
  [limitReached |-> u.count >= u.limit,
   currentCount |-> u.count,
   limit |-> u.limit,
   timeUntilReset |-> getTimeUntilReset(u.resetDate, t),
   resetDate |-> u.resetDate]

\* What the caller of resetUsageIfExpired does with the record u it
\* returns, up to its next await: trackUsage throws at the limit and
\* otherwise increments and saves; checkRateLimit reports.
AfterRollGt(p, l, u) ==
  IF l.kind = "reply"
    THEN IF u.count > u.limit
           THEN Finish(p, [l EXCEPT !.rec = u, !.denied = TRUE],
                       ErrorResponse(RateLimitMessage(u, now)))
           ELSE Continue(p, "saveUsage",
                         [l EXCEPT !.rec = [u EXCEPT !.count = @ + 1]])
    ELSE Finish(p, [l EXCEPT !.rec = u], CheckResult(u, now))

AfterRoll(p, l, u) ==
  IF l.kind = "reply"
    THEN IF u.count >= u.limit
           THEN Finish(p, [l EXCEPT !.rec = u, !.denied = TRUE],
                       ErrorResponse(RateLimitMessage(u, now)))
           ELSE Continue(p, "saveUsage",
                         [l EXCEPT !.rec = [u EXCEPT !.count = @ + 1]])
    ELSE Finish(p, [l EXCEPT !.rec = u], CheckResult(u, now))

\* resetUsageIfExpired: getUsage resolves and the expiry test is made.  An
\* expired window goes on to `await getSettings()`; otherwise the record is
\* returned to the caller.
GetUsage(p) ==
  /\ pc[p] = "getUsage"
  /\ LET u == getUsage(usage, now)
         l == [loc[p] EXCEPT !.tNow = now, !.seen = u, !.reads = @ + 1]
     IN  IF now >= u.resetDate
           THEN Continue(p, "rollSettings", l)
           ELSE AfterRoll(p, l, u)
  /\ UNCHANGED << now, ticks, settings, usage, workerVars,
                  prefsVars, pageVars >>

\* resetUsageIfExpired: getSettings resolves, the fresh record is built and
\* `await saveUsage(resetUsage)` is reached.
RollSettingsFromOld(p) ==
  /\ pc[p] = "rollSettings"
  /\ Continue(p, "rollSave",
              [loc[p] EXCEPT !.rec =
                 Usage(0, loc[p].seen.resetDate + DAY_MS, settings.rateLimit)])
  /\ UNCHANGED << now, ticks, settings, usage, workerVars,
                  prefsVars, pageVars >>

RollSettings(p) ==
  /\ pc[p] = "rollSettings"
  /\ Continue(p, "rollSave",
              [loc[p] EXCEPT !.rec =
                 Usage(0, loc[p].tNow + DAY_MS, settings.rateLimit)])
  /\ UNCHANGED << now, ticks, settings, usage, workerVars,
                  prefsVars, pageVars >>

\* resetUsageIfExpired: the fresh record is stored and returned to the
\* caller.
RollSaveSkip(p) ==
  /\ pc[p] = "rollSave"
  /\ AfterRoll(p, loc[p], loc[p].rec)
  /\ UNCHANGED << now, ticks, settings, usage, workerVars,
                  prefsVars, pageVars >>

RollSave(p) ==
  /\ pc[p] = "rollSave"
  /\ usage' = loc[p].rec
  /\ AfterRoll(p, [loc[p] EXCEPT !.writes = @ + 1], loc[p].rec)
  /\ UNCHANGED << now, ticks, settings, workerVars,
                  prefsVars, pageVars >>

\* trackUsage: the incremented record is stored and returned;
\* handleGenerateReply calls callGeminiAPI and awaits it.
SaveUsage(p) ==
  /\ pc[p] = "saveUsage"
  /\ usage' = loc[p].rec
  /\ Continue(p, "generate", [loc[p] EXCEPT !.writes = @ + 1, !.gen = @ + 1])
  /\ UNCHANGED << now, ticks, settings, workerVars,
                  prefsVars, pageVars >>

\* callGeminiAPI settles with outcome o and handleGenerateReply answers.
GenerateRefund(p, o) ==
  /\ pc[p] = "generate"
  /\ Finish(p, [loc[p] EXCEPT !.out = o],
            IF o.ok THEN SuccessResponse(loc[p].rec.count)
                    ELSE ErrorResponse(o.msg))
  /\ usage' = IF o.ok THEN usage ELSE [usage EXCEPT !.count = @ - 1]
  /\ UNCHANGED << now, ticks, settings, workerVars,
                  prefsVars, pageVars >>

GenerateReread(p, o) ==
  /\ pc[p] = "generate"
  /\ Finish(p, [loc[p] EXCEPT !.out = o],
            IF o.ok THEN SuccessResponse(usage.count)
                    ELSE ErrorResponse(o.msg))
  /\ UNCHANGED << now, ticks, settings, usage, workerVars,
                  prefsVars, pageVars >>

Generate(p, o) ==
  /\ pc[p] = "generate"
  /\ Finish(p, [loc[p] EXCEPT !.out = o],
            IF o.ok THEN SuccessResponse(loc[p].rec.count)
                    ELSE ErrorResponse(o.msg))
  /\ UNCHANGED << now, ticks, settings, usage, workerVars,
                  prefsVars, pageVars >>

ClockSteps == { 1, DAY_MS }

Next ==
  \/ \E d \in ClockSteps : Tick(d)
  \/ \E p \in Procs, t \in Texts : Receive(p, t)
  \/ \E p \in Procs : LoadSettings(p)
  \/ \E p \in Procs : StartCheck(p)
  \/ \E p \in Procs : GetUsage(p)
  \/ \E p \in Procs : RollSettings(p)
  \/ \E p \in Procs : RollSave(p)
  \/ \E p \in Procs : SaveUsage(p)
  \/ \E p \in Procs, o \in Outcomes : Generate(p, o)

Spec == Init /\ [][Next]_vars

\* Messages handled one after another: an invocation starts only when no
\* other one is in flight.
Quiet == \A p \in Procs : pc[p] \in { "idle", "done" }
ReceiveSeq(p, t) == Quiet /\ Receive(p, t)
StartCheckSeq(p) == Quiet /\ StartCheck(p)

NextSeq ==
  \/ \E d \in ClockSteps : Tick(d)
  \/ \E p \in Procs, t \in Texts : ReceiveSeq(p, t)
  \/ \E p \in Procs : LoadSettings(p)
  \/ \E p \in Procs : StartCheckSeq(p)
  \/ \E p \in Procs : GetUsage(p)
  \/ \E p \in Procs : RollSettings(p)
  \/ \E p \in Procs : RollSave(p)
  \/ \E p \in Procs : SaveUsage(p)
  \/ \E p \in Procs, o \in Outcomes : Generate(p, o)

SpecSeq == Init /\ [][NextSeq]_vars

TypeOK ==
  /\ now \in Nat
  /\ ticks \in 0..MaxTicks
  /\ settings \in SettingsSet
  /\ usage = None \/ usage.count \in Nat
  /\ pc \in [Procs -> { "idle", "getSettings", "getUsage", "rollSettings",
                        "rollSave", "saveUsage", "generate", "resetGet",
                        "resetSave", "limitGet", "limitSave", "syncSettings",
                        "syncGet", "syncSave", "msgSettings", "statsGet",
                        "done" }]

\* ---------------------------------------------------- settings operations
\* saveSettings(r), called from any context, runs to completion.
SaveSettings(r) ==
  /\ sync' = saveSettings(sync, r).sync
  /\ lastOp' = [op |-> "save", arg |-> r, threw |-> saveSettings(sync, r).threw,
                ret |-> EmptyRecord]
  /\ UNCHANGED << ledgerVars, pageVars >>

\* The Save button of the options page: saveSettingsFromUI.
SaveSettingsFromUI(form) ==
  /\ sync' = saveSettingsFromUI(sync, form).sync
  /\ lastOp' = [op |-> "ui", arg |-> FormRecord(form),
                threw |-> saveSettingsFromUI(sync, form).threw,
                ret |-> EmptyRecord]
  /\ UNCHANGED << ledgerVars, pageVars >>

\* getSettings(), called from any context.  When it follows a saveSettings
\* call, `arg` and `threw` keep the record and the outcome of that call.
GetSettings ==
  /\ lastOp' = [op |-> IF lastOp.op = "save" THEN "getAfterSave" ELSE "get",
                arg |-> lastOp.arg, threw |-> lastOp.threw,
                ret |-> getSettings(sync)]
  /\ UNCHANGED << sync, ledgerVars, pageVars >>

InitPrefs == LedgerAtRest /\ PageAtRest /\ PrefsAtRest

NextPrefs ==
  \/ \E r \in SettingsInputs : SaveSettings(r)
  \/ \E form \in FormInputs : SaveSettingsFromUI(form)
  \/ GetSettings

SpecPrefs == InitPrefs /\ [][NextPrefs]_vars

\* ------------------------------------------------------------ manual reset
\* The Reset button of the options page, confirmed: handleResetUsage calls
\* resetUsage, which runs up to `await chrome.storage.local.get('usage')`.
ClickReset(p) ==
  /\ Arrives(p)
  /\ Continue(p, "resetGet", [NoLoc EXCEPT !.kind = "reset"])
  /\ UNCHANGED << now, ticks, settings, usage, workerVars,
                  prefsVars, pageVars >>

\* The same when nothing else is in flight.
StartReset(p) == Quiet /\ ClickReset(p)

\* resetUsage: getUsage resolves, the fresh record is built and
\* `await saveUsage(resetUsage)` is reached.
ResetGetUsageKeepWindow(p) ==
  /\ pc[p] = "resetGet"
  /\ LET u == getUsage(usage, now)
     IN  Continue(p, "resetSave",
                  [loc[p] EXCEPT !.tNow = now, !.seen = u, !.reads = @ + 1,
                                 !.rec = Usage(0, IF now >= u.resetDate
                                                    THEN now + DAY_MS
                                                    ELSE u.resetDate, u.limit)])
  /\ UNCHANGED << now, ticks, settings, usage, workerVars,
                  prefsVars, pageVars >>

ResetGetUsage(p) ==
  /\ pc[p] = "resetGet"
  /\ LET u == getUsage(usage, now)
     IN  Continue(p, "resetSave",
                  [loc[p] EXCEPT !.tNow = now, !.seen = u, !.reads = @ + 1,
                                 !.rec = Usage(0, now + DAY_MS, u.limit)])
  /\ UNCHANGED << now, ticks, settings, usage, workerVars,
                  prefsVars, pageVars >>

\* resetUsage: the fresh record is stored and returned.
ResetSave(p) ==
  /\ pc[p] = "resetSave"
  /\ usage' = loc[p].rec
  /\ Finish(p, [loc[p] EXCEPT !.writes = @ + 1], loc[p].rec)
  /\ UNCHANGED << now, ticks, settings, workerVars,
                  prefsVars, pageVars >>

\* ------------------------------------------------------------ limit change
\* What a ledger function that threw hands to its caller.
Thrown(msg) == [threw |-> msg]
Returned == [threw |-> << >>]

\* The limits handed to updateRateLimit: both sides of its test.
NewLimits == { 0, 1, 3 }

\* updateRateLimit(n) is called: it throws for n < 1 and otherwise runs up
\* to `await chrome.storage.local.get('usage')`.
StartSetLimit(p, n) ==
  /\ Arrives(p)
  /\ Quiet
  /\ LET l == [NoLoc EXCEPT !.kind = "setLimit", !.arg = n]
     IN  IF n < 1
           THEN Finish(p, l, Thrown(<< "Rate limit must be at least 1" >>))
           ELSE Continue(p, "limitGet", l)
  /\ UNCHANGED << now, ticks, settings, usage, workerVars,
                  prefsVars, pageVars >>

\* updateRateLimit: getUsage resolves, the limit of the record is replaced
\* and `await saveUsage(usage)` is reached.
LimitGetUsageResets(p) ==
  /\ pc[p] = "limitGet"
  /\ LET u == getUsage(usage, now)
     IN  Continue(p, "limitSave",
                  [loc[p] EXCEPT !.tNow = now, !.seen = u, !.reads = @ + 1,
                                 !.rec = Usage(0, now + DAY_MS, loc[p].arg)])
  /\ UNCHANGED << now, ticks, settings, usage, workerVars,
                  prefsVars, pageVars >>

LimitGetUsage(p) ==
  /\ pc[p] = "limitGet"
  /\ LET u == getUsage(usage, now)
     IN  Continue(p, "limitSave",
                  [loc[p] EXCEPT !.tNow = now, !.seen = u, !.reads = @ + 1,
                                 !.rec = [u EXCEPT !.limit = loc[p].arg]])
  /\ UNCHANGED << now, ticks, settings, usage, workerVars,
                  prefsVars, pageVars >>

\* updateRateLimit: the record is stored.
LimitSave(p) ==
  /\ pc[p] = "limitSave"
  /\ usage' = loc[p].rec
  /\ Finish(p, [loc[p] EXCEPT !.writes = @ + 1], Returned)
  /\ UNCHANGED << now, ticks, settings, workerVars,
                  prefsVars, pageVars >>

\* updateUsageLimit is called and runs up to `await getSettings()`.
StartSyncLimit(p) ==
  /\ Arrives(p)
  /\ Quiet
  /\ Continue(p, "syncSettings", [NoLoc EXCEPT !.kind = "syncLimit"])
  /\ UNCHANGED << now, ticks, settings, usage, workerVars,
                  prefsVars, pageVars >>

\* updateUsageLimit: getSettings resolves and
\* `await chrome.storage.local.get('usage')` is reached.
SyncSettings(p) ==
  /\ pc[p] = "syncSettings"
  /\ Continue(p, "syncGet", [loc[p] EXCEPT !.cfg = settings])
  /\ UNCHANGED << now, ticks, settings, usage, workerVars,
                  prefsVars, pageVars >>

\* updateUsageLimit: getUsage resolves; a limit that differs from the
\* settings is replaced and `await saveUsage(usage)` is reached.
SyncGetUsage(p) ==
  /\ pc[p] = "syncGet"
  /\ LET u == getUsage(usage, now)
         l == [loc[p] EXCEPT !.tNow = now, !.seen = u, !.reads = @ + 1]
     IN  IF u.limit # loc[p].cfg.rateLimit
           THEN Continue(p, "syncSave",
                         [l EXCEPT !.rec =
                            [u EXCEPT !.limit = loc[p].cfg.rateLimit]])
           ELSE Finish(p, [l EXCEPT !.rec = u], Returned)
  /\ UNCHANGED << now, ticks, settings, usage, workerVars,
                  prefsVars, pageVars >>

\* updateUsageLimit: the record is stored.
SyncSave(p) ==
  /\ pc[p] = "syncSave"
  /\ usage' = loc[p].rec
  /\ Finish(p, [loc[p] EXCEPT !.writes = @ + 1], Returned)
  /\ UNCHANGED << now, ticks, settings, workerVars,
                  prefsVars, pageVars >>

\* ------------------------------------------------------------ usage display
\* loadUsageStats of the popup and of the options page is called and runs
\* up to `await chrome.storage.local.get('usage')`.
StartStats(p) ==
  /\ Arrives(p)
  /\ Quiet
  /\ Continue(p, "statsGet", [NoLoc EXCEPT !.kind = "stats"])
  /\ UNCHANGED << now, ticks, settings, usage, workerVars,
                  prefsVars, pageVars >>

\* loadUsageStats: getUsage resolves and the record is displayed.
StatsGetUsage(p) ==
  /\ pc[p] = "statsGet"
  /\ LET u == getUsage(usage, now)
     IN  Finish(p, [loc[p] EXCEPT !.tNow = now, !.seen = u, !.rec = u,
                                  !.reads = @ + 1], u)
  /\ UNCHANGED << now, ticks, settings, usage, workerVars,
                  prefsVars, pageVars >>

\* Messages, resets, limit changes and displays of the usage handled one
\* after another.
NextOps ==
  \/ \E d \in ClockSteps : Tick(d)
  \/ \E p \in Procs, t \in Texts : ReceiveSeq(p, t)
  \/ \E p \in Procs : LoadSettings(p)
  \/ \E p \in Procs : StartCheckSeq(p)
  \/ \E p \in Procs : GetUsage(p)
  \/ \E p \in Procs : RollSettings(p)
  \/ \E p \in Procs : RollSave(p)
  \/ \E p \in Procs : SaveUsage(p)
  \/ \E p \in Procs, o \in Outcomes : Generate(p, o)
  \/ \E p \in Procs : StartReset(p)
  \/ \E p \in Procs : ResetGetUsage(p)
  \/ \E p \in Procs : ResetSave(p)
  \/ \E p \in Procs, n \in NewLimits : StartSetLimit(p, n)
  \/ \E p \in Procs : LimitGetUsage(p)
  \/ \E p \in Procs : LimitSave(p)
  \/ \E p \in Procs : StartSyncLimit(p)
  \/ \E p \in Procs : SyncSettings(p)
  \/ \E p \in Procs : SyncGetUsage(p)
  \/ \E p \in Procs : SyncSave(p)
  \/ \E p \in Procs : StartStats(p)
  \/ \E p \in Procs : StatsGetUsage(p)

SpecOps == Init /\ [][NextOps]_vars

\* ------------------------------------------------------------ shared ledger
\* The extension context in which an invocation of a kind runs: the
\* onMessage listener of the service worker calls handleGenerateReply, and
\* with it trackUsage; the options page imports resetUsage and getUsage and
\* calls them in its own document; the other ledger functions are exported
\* by the library and bound to no context.
Context(kind) ==
  CASE kind \in { "reply", "settings", "unknown" } -> "serviceWorker"
    [] kind \in { "reset", "stats" } -> "options"
    [] OTHER -> "library"

\* The service worker handles messages while the options page is open: a
\* reset is started and its storage calls resolve at any point of the
\* requests in flight, all on the one chrome.storage.local record.
NextShared ==
  \/ \E d \in ClockSteps : Tick(d)
  \/ \E p \in Procs, t \in Texts : Receive(p, t)
  \/ \E p \in Procs : LoadSettings(p)
  \/ \E p \in Procs : GetUsage(p)
  \/ \E p \in Procs : RollSettings(p)
  \/ \E p \in Procs : RollSave(p)
  \/ \E p \in Procs : SaveUsage(p)
  \/ \E p \in Procs, o \in Outcomes : Generate(p, o)
  \/ \E p \in Procs : ClickReset(p)
  \/ \E p \in Procs : ResetGetUsage(p)
  \/ \E p \in Procs : ResetSave(p)

SpecShared == Init /\ [][NextShared]_vars

\* ------------------------------------------------- the limit in the settings
\* What handleGenerateReply and resetUsageIfExpired read of the settings:
\* getSettings() of the stored value, its API key and its rateLimit.
LedgerSettings(st) ==
  [apiKey |-> IF getSettings(st).apiKey.s = "" THEN "" ELSE "key",
   rateLimit |-> getSettings(st).rateLimit.n]

\* The options form with the texts typed into its rate limit input.
LimitForms == { [BaseForm EXCEPT !.rateLimit = Str(v)] : v \in { "0", "1", "2.9" } }

\* The Save button of the options page while no message is being handled:
\* saveSettingsFromUI stores the record of the form, or fails, and then
\* loadUsageStats reads the usage record for display.  The usage record is
\* not written.
SaveFromOptions(form) ==
  /\ Quiet
  /\ sync' = saveSettingsFromUI(sync, form).sync
  /\ lastOp' = [op |-> "ui", arg |-> FormRecord(form),
                threw |-> saveSettingsFromUI(sync, form).threw,
                ret |-> EmptyRecord]
  /\ settings' = LedgerSettings(sync')
  /\ UNCHANGED << now, ticks, usage, pc, loc, last, workerVars, pageVars >>

\* A fresh install, or one that has counted requests under the default
\* limit: nothing is stored under 'settings'.
InitLimit ==
  /\ now = 0
  /\ ticks = 0
  /\ PrefsAtRest
  /\ settings = LedgerSettings(sync)
  /\ usage \in { None } \cup { Usage(c, 1, DEFAULT_RATE_LIMIT) : c \in 0..1 }
  /\ pc = [p \in Procs |-> "idle"]
  /\ loc = [p \in Procs |-> NoLoc]
  /\ last = [loc |-> NoLoc, resp |-> None]
  /\ WorkerLoaded
  /\ PageAtRest

NextLimit ==
  \/ \E d \in ClockSteps : Tick(d)
  \/ \E p \in Procs, t \in Texts : ReceiveSeq(p, t)
  \/ \E p \in Procs : LoadSettings(p)
  \/ \E p \in Procs : GetUsage(p)
  \/ \E p \in Procs : RollSettings(p)
  \/ \E p \in Procs : RollSave(p)
  \/ \E p \in Procs : SaveUsage(p)
  \/ \E p \in Procs, o \in Outcomes : Generate(p, o)
  \/ \E form \in LimitForms : SaveFromOptions(form)

SpecLimit == InitLimit /\ [][NextLimit]_vars

\* ------------------------------------------------------------ popup tone
\* The tone selector of the popup changes: handleToneChange takes the new
\* tone from the selector and calls getSettings, which runs up to
\* `await chrome.storage.sync.get('settings')`.
PopupTones == { "friendly", "polite" }

ToneChange(p, tone) ==
  /\ Arrives(p)
  /\ Continue(p, "toneGet", [NoLoc EXCEPT !.kind = "tone", !.seen = Str(tone)])
  /\ UNCHANGED << now, ticks, settings, usage, workerVars, prefsVars, pageVars >>

\* The read resolves: the record merged over the defaults, its tone set to
\* the new one, is handed to saveSettings, which validates it and runs up
\* to `await chrome.storage.sync.set({ settings })`; a record that fails
\* validation is not stored.
ToneRead(p) ==
  /\ pc[p] = "toneGet"
  /\ LET r == [getSettings(sync) EXCEPT !.tone = loc[p].seen]
     IN  /\ Continue(p, "toneSave",
                     [loc[p] EXCEPT !.cfg = r, !.reads = @ + 1,
                                    !.denied = validateSettings(r) # ""])
         /\ lastOp' = [op |-> "get", arg |-> lastOp.arg, threw |-> lastOp.threw,
                       ret |-> getSettings(sync)]
  /\ UNCHANGED << sync, now, ticks, settings, usage, workerVars, pageVars >>

\* The write lands and handleToneChange ends.
ToneWrite(p) ==
  /\ pc[p] = "toneSave"
  /\ sync' = IF loc[p].denied THEN sync ELSE Serialize(loc[p].cfg)
  /\ lastOp' = [op |-> "save", arg |-> loc[p].cfg,
                threw |-> IF loc[p].denied THEN "Failed to save settings" ELSE "",
                ret |-> EmptyRecord]
  /\ Finish(p, [loc[p] EXCEPT !.writes = IF loc[p].denied THEN @ ELSE @ + 1], None)
  /\ UNCHANGED << now, ticks, settings, usage, workerVars, pageVars >>

\* The popup and the options page are open together: the Save button of
\* the options page is pressed at any point of a tone change.
NextTone ==
  \/ \E p \in Procs, tone \in PopupTones : ToneChange(p, tone)
  \/ \E p \in Procs : ToneRead(p)
  \/ \E p \in Procs : ToneWrite(p)
  \/ \E form \in FormInputs : SaveSettingsFromUI(form)

SpecTone == InitPrefs /\ [][NextTone]_vars

\* ----------------------------------------------------------- storage faults
SAVE_ERROR == << "Failed to save usage data" >>

\* chrome.storage.local.get rejects in getUsage: its catch block returns a
\* fresh default record, and resetUsageIfExpired and its caller go on with
\* that record.
GetUsageFails(p) ==
  /\ pc[p] = "getUsage"
  /\ LET u == Usage(0, now + DAY_MS, DEFAULT_RATE_LIMIT)
         l == [loc[p] EXCEPT !.tNow = now, !.seen = u, !.reads = @ + 1,
                             !.fault = "read"]
     IN  IF now >= u.resetDate
           THEN Continue(p, "rollSettings", l)
           ELSE AfterRoll(p, l, u)
  /\ UNCHANGED << now, ticks, settings, usage, workerVars,
                  prefsVars, pageVars >>

\* What the caller of a saveUsage that threw does: trackUsage and
\* resetUsageIfExpired rethrow; handleGenerateReply answers from its catch
\* block and checkRateLimit rethrows.
SaveFailed(p) ==
  LET l == [loc[p] EXCEPT !.fault = "write"]
  IN  IF l.kind = "reply" THEN Finish(p, l, ErrorResponse(SAVE_ERROR))
                          ELSE Finish(p, l, Thrown(SAVE_ERROR))

\* chrome.storage.local.set rejects in the saveUsage of trackUsage.
SaveUsageFails(p) ==
  /\ pc[p] = "saveUsage"
  /\ SaveFailed(p)
  /\ UNCHANGED << now, ticks, settings, usage, workerVars,
                  prefsVars, pageVars >>

\* chrome.storage.local.set rejects in the saveUsage of resetUsageIfExpired.
RollSaveFails(p) ==
  /\ pc[p] = "rollSave"
  /\ SaveFailed(p)
  /\ UNCHANGED << now, ticks, settings, usage, workerVars,
                  prefsVars, pageVars >>

\* Messages handled one after another, with storage calls that can fail.
NextFault ==
  \/ \E d \in ClockSteps : Tick(d)
  \/ \E p \in Procs, t \in Texts : ReceiveSeq(p, t)
  \/ \E p \in Procs : LoadSettings(p)
  \/ \E p \in Procs : StartCheckSeq(p)
  \/ \E p \in Procs : GetUsage(p)
  \/ \E p \in Procs : RollSettings(p)
  \/ \E p \in Procs : RollSave(p)
  \/ \E p \in Procs : SaveUsage(p)
  \/ \E p \in Procs, o \in Outcomes : Generate(p, o)
  \/ \E p \in Procs : GetUsageFails(p)
  \/ \E p \in Procs : SaveUsageFails(p)
  \/ \E p \in Procs : RollSaveFails(p)

SpecFault == Init /\ [][NextFault]_vars

\* ------------------------------------------------------- message listener
\* What getSettings returns when chrome.storage.sync.get rejects.
DefaultLedgerSettings == [apiKey |-> "", rateLimit |-> DEFAULT_RATE_LIMIT]

SettingsResponse(st) == [type |-> "SETTINGS_RESPONSE", settings |-> st]

\* The listener receives GET_SETTINGS: getSettings runs up to
\* `await chrome.storage.sync.get('settings')` and the listener returns.
ReceiveGetSettings(p) ==
  /\ Arrives(p)
  /\ Quiet
  /\ Continue(p, "msgSettings", [NoLoc EXCEPT !.kind = "settings"])
  /\ keepAliveInterval' = startKeepAlive(keepAliveInterval)
  /\ keepAliveTimers' = startKeepAliveTimers(keepAliveInterval, keepAliveTimers)
  /\ pings' = pings
  /\ UNCHANGED << now, ticks, settings, usage, restarts, prefsVars, pageVars >>

\* getSettings resolves with the stored settings, or with the defaults
\* when the storage call failed, and the listener answers.
AnswerSettings(p, failed) ==
  /\ pc[p] = "msgSettings"
  /\ LET st == IF failed THEN DefaultLedgerSettings ELSE settings
     IN  Finish(p, [loc[p] EXCEPT !.cfg = st,
                                  !.fault = IF failed THEN "read" ELSE "none"],
                SettingsResponse(st))
  /\ UNCHANGED << now, ticks, settings, usage, workerVars,
                  prefsVars, pageVars >>

\* The listener receives a message of another type: it returns false and
\* sendResponse is not called.
ReceiveUnknown(p) ==
  /\ Arrives(p)
  /\ Quiet
  /\ Finish(p, [NoLoc EXCEPT !.kind = "unknown"], None)
  /\ keepAliveInterval' = startKeepAlive(keepAliveInterval)
  /\ keepAliveTimers' = startKeepAliveTimers(keepAliveInterval, keepAliveTimers)
  /\ pings' = pings
  /\ UNCHANGED << now, ticks, settings, usage, restarts, prefsVars, pageVars >>

\* A step of a handler in flight: the promise it awaits settles.
HandlerStep ==
  \E p \in Procs :
    \/ LoadSettings(p)
    \/ GetUsage(p)
    \/ GetUsageFails(p)
    \/ RollSettings(p)
    \/ RollSave(p)
    \/ RollSaveFails(p)
    \/ SaveUsage(p)
    \/ SaveUsageFails(p)
    \/ \E o \in Outcomes : Generate(p, o)
    \/ \E failed \in BOOLEAN : AnswerSettings(p, failed)

\* The messages of every type handled one after another, with storage
\* calls that can fail.
NextMsg ==
  \/ \E d \in ClockSteps : Tick(d)
  \/ \E p \in Procs, t \in Texts : ReceiveSeq(p, t)
  \/ \E p \in Procs : ReceiveGetSettings(p)
  \/ \E p \in Procs : ReceiveUnknown(p)
  \/ HandlerStep

\* Every promise a handler awaits settles.
SpecMsg == Init /\ [][NextMsg]_vars /\ WF_vars(HandlerStep)

\* ------------------------------------------------------ worker life cycle
\* The browser tears the service worker down between two messages and
\* loads it again for the next one: the memory of the worker is lost (its
\* one module variable, keepAliveInterval) and the script runs from the
\* top.  What is in chrome.storage stays.
RestartLosesUsage ==
  /\ Quiet
  /\ \E p \in Procs : pc[p] = "done"
  /\ \E p \in Procs : pc[p] = "idle"
  /\ restarts < MaxRestarts
  /\ restarts' = restarts + 1
  /\ keepAliveInterval' = startKeepAlive(0)
  /\ keepAliveTimers' = startKeepAliveTimers(0, 0)
  /\ pings' = pings
  /\ usage' = None
  /\ UNCHANGED << now, ticks, settings, pc, loc, last, prefsVars, pageVars >>

Restart ==
  /\ Quiet
  /\ \E p \in Procs : pc[p] = "done"
  /\ \E p \in Procs : pc[p] = "idle"
  /\ restarts < MaxRestarts
  /\ restarts' = restarts + 1
  /\ keepAliveInterval' = startKeepAlive(0)
  /\ keepAliveTimers' = startKeepAliveTimers(0, 0)
  /\ pings' = pings
  /\ UNCHANGED << now, ticks, settings, usage, pc, loc, last, prefsVars,
                  pageVars >>

\* Messages handled one after another by a worker that can be restarted
\* between them.
NextRestart ==
  \/ \E d \in ClockSteps : Tick(d)
  \/ \E p \in Procs, t \in Texts : ReceiveSeq(p, t)
  \/ \E p \in Procs : LoadSettings(p)
  \/ \E p \in Procs : GetUsage(p)
  \/ \E p \in Procs : RollSettings(p)
  \/ \E p \in Procs : RollSave(p)
  \/ \E p \in Procs : SaveUsage(p)
  \/ \E p \in Procs, o \in Outcomes : Generate(p, o)
  \/ Restart

SpecRestart == Init /\ [][NextRestart]_vars

\* ------------------------------------------------------------- keep-alive
\* chrome.runtime.onStartup fires in the loaded worker: startKeepAlive().
BrowserStartup ==
  /\ keepAliveInterval' = startKeepAlive(keepAliveInterval)
  /\ keepAliveTimers' = startKeepAliveTimers(keepAliveInterval, keepAliveTimers)
  /\ UNCHANGED << now, ticks, settings, usage, pc, loc, last, pings, restarts,
                  prefsVars, pageVars >>

\* 20 s (20000 ms) have passed on an interval timer of the keep-alive: its
\* callback calls chrome.runtime.getPlatformInfo with a callback that does
\* nothing.

KeepAliveTick ==
  /\ keepAliveTimers > 0
  /\ pings < MaxPings
  /\ pings' = pings + 1
  /\ UNCHANGED << now, ticks, settings, usage, pc, loc, last, keepAliveInterval,
                  keepAliveTimers, restarts, prefsVars, pageVars >>

\* Messages handled one after another by a worker that is restarted,
\* sees browser starts and runs its keep-alive timer between their steps.
NextKeepAlive ==
  \/ \E d \in ClockSteps : Tick(d)
  \/ \E p \in Procs, t \in Texts : ReceiveSeq(p, t)
  \/ \E p \in Procs : LoadSettings(p)
  \/ \E p \in Procs : GetUsage(p)
  \/ \E p \in Procs : RollSettings(p)
  \/ \E p \in Procs : RollSave(p)
  \/ \E p \in Procs : SaveUsage(p)
  \/ \E p \in Procs, o \in Outcomes : Generate(p, o)
  \/ Restart
  \/ BrowserStartup
  \/ KeepAliveTick

SpecKeepAlive == Init /\ [][NextKeepAlive]_vars

\* handleGenerateReply as a function of what it is given: the post text t,
\* the settings cfg and the usage record u0 it reads from storage, the
\* clock reading tn of resetUsageIfExpired and the outcome o of the
\* generator (None when it is not called).  The response, whether the usage
\* record is written, and the record stored last.
GatewayAnswer(t, cfg, u0, tn, o) ==
  IF validatePostText(t) # << >>
    THEN [resp |-> ErrorResponse(validatePostText(t)), wrote |-> FALSE,
          usage |-> None]
  ELSE IF ApiKeyMissing(cfg)
    THEN [resp |-> ErrorResponse(<< "API key not configured" >>),
          wrote |-> FALSE, usage |-> None]
  ELSE LET rolled == tn >= u0.resetDate
           u == IF rolled THEN Usage(0, tn + DAY_MS, cfg.rateLimit) ELSE u0
       IN  IF u.count >= u.limit
             THEN [resp |-> ErrorResponse(RateLimitMessage(u, tn)),
                   wrote |-> rolled, usage |-> u]
             ELSE [resp |-> IF o.ok THEN SuccessResponse(u.count + 1)
                                    ELSE ErrorResponse(o.msg),
                   wrote |-> TRUE, usage |-> [u EXCEPT !.count = @ + 1]]

\* ------------------------------------------------------- the clock turns
\* trackUsage and checkRateLimit read the clock a second time: the expiry
\* test uses `now` of resetUsageIfExpired and the remaining time is
\* computed from the Date.now() of getTimeUntilReset, called when the
\* caller has resumed.  What the caller does with the unexpired record u
\* when that second reading is t:
AfterRollAt(p, l, u, t) ==
  IF l.kind = "reply"
    THEN IF u.count >= u.limit
           THEN Finish(p, [l EXCEPT !.rec = u, !.denied = TRUE],
                       ErrorResponse(RateLimitMessage(u, t)))
           ELSE Continue(p, "saveUsage",
                         [l EXCEPT !.rec = [u EXCEPT !.count = @ + 1]])
    ELSE Finish(p, [l EXCEPT !.rec = u], CheckResult(u, t))

\* getUsage resolves, the window has not expired, and the clock has gone on
\* by 1 ms when the caller reads it.
GetUsageClockTurns(p) ==
  /\ pc[p] = "getUsage"
  /\ ticks < MaxTicks
  /\ now < getUsage(usage, now).resetDate
  /\ LET u == getUsage(usage, now)
         l == [loc[p] EXCEPT !.tNow = now, !.seen = u, !.reads = @ + 1]
     IN  AfterRollAt(p, l, u, now + 1)
  /\ now' = now + 1
  /\ ticks' = ticks + 1
  /\ UNCHANGED << settings, usage, workerVars, prefsVars, pageVars >>

NextClock ==
  \/ \E d \in ClockSteps : Tick(d)
  \/ \E p \in Procs, t \in Texts : ReceiveSeq(p, t)
  \/ \E p \in Procs : LoadSettings(p)
  \/ \E p \in Procs : StartCheckSeq(p)
  \/ \E p \in Procs : GetUsage(p)
  \/ \E p \in Procs : GetUsageClockTurns(p)
  \/ \E p \in Procs : RollSettings(p)
  \/ \E p \in Procs : RollSave(p)
  \/ \E p \in Procs : SaveUsage(p)
  \/ \E p \in Procs, o \in Outcomes : Generate(p, o)

SpecClock == Init /\ [][NextClock]_vars

\* ---------------------------------------------------------- content script
\* window.clearTimeout(id): a timer that has fired or was cleared is gone
\* and the call does nothing.
clearTimeoutNoop(ts, id) == ts

clearTimeout(ts, id) == { t \in ts : t.id # id }

\* The id window.setTimeout returns: one that no pending timer and no
\* handle of the script holds.
FreeTimerIds(ts) == TimerIds \ ({ t.id : t \in ts } \cup { debounceTimer })

\* The MutationObserver callback, run with the timers ts pending: the timer
\* remembered in debounceTimer is cleared and a new one is set.
Observe(ts) ==
  /\ FreeTimerIds(ts) # { }
  /\ timers' = clearTimeout(ts, debounceTimer)
                 \cup { [id |-> First(FreeTimerIds(ts)), left |-> DEBOUNCE_MS] }
  /\ debounceTimer' = First(FreeTimerIds(ts))
  /\ sinceMutation' = 0
  /\ burst' = IF \E t \in ts : t.id = debounceTimer /\ t.left > 0
                THEN IF burst < MaxBurst THEN burst + 1 ELSE burst
                ELSE 1

\* The host page adds the comment area r.
HostAddBox(r) ==
  /\ r \in PageRoots \ boxes
  /\ Cardinality(boxes) < MaxBoxes
  /\ boxes' = boxes \cup { r }
  /\ scans' = 0
  /\ Observe(timers)
  /\ UNCHANGED << ctl, notice, reportVars, editorVars, ledgerVars, prefsVars >>

\* The host page removes the comment area r and all it holds.
HostRemoveBox(r) ==
  /\ r \in boxes
  /\ boxes' = boxes \ { r }
  /\ ctl' = [n \in Nodes |-> IF RootOf(n) = r THEN None ELSE ctl[n]]
  /\ scans' = 0
  /\ Observe(timers)
  /\ UNCHANGED << notice, reportVars, editorVars, ledgerVars, prefsVars >>

\* The host page removes the control appended to n (it re-renders n).  What
\* a handler of the removed control still does is no longer followed.
HostRemoveControl(n) ==
  /\ ctl[n] # None
  /\ ctl' = [ctl EXCEPT ![n] = None]
  /\ scans' = 0
  /\ Observe(timers)
  /\ UNCHANGED << boxes, notice, reportVars, editorVars, ledgerVars, prefsVars >>

\* Any other change of the page's child lists.
HostMutate ==
  /\ scans' = 0
  /\ Observe(timers)
  /\ UNCHANGED << boxes, ctl, notice, reportVars, editorVars, ledgerVars, prefsVars >>

\* The debounce timer fires: injectButtons runs; the controls it appends
\* are mutations of the page, observed right after.
Rescan ==
  \E t \in timers :
    /\ t.left = 0
    /\ ctl' = injectButtons(ctl, boxes)
    /\ scans' = scans + 1
    /\ faulty' = { }
    /\ IF injectedCount(ctl, boxes) > 0
         THEN Observe(timers \ { t })
         ELSE /\ timers' = timers \ { t }
              /\ UNCHANGED << debounceTimer, sinceMutation, burst >>
    /\ UNCHANGED << boxes, notice, toasts, modal, modals, extracted, request,
                    editorVars, ledgerVars, prefsVars >>

\* The debounce timer fires and injectButtons runs while injecting into the
\* boxes F throws; it throws in one box at least.
RescanExcept(F) ==
  \E t \in timers :
    /\ t.left = 0
    /\ F \subseteq findCommentBoxes(boxes)
    /\ thrownFrom(ctl, boxes, F, 1) = F
    /\ F # { }
    /\ ctl' = injectButtonsExcept(ctl, boxes, F)
    /\ scans' = scans + 1
    /\ faulty' = F
    /\ IF injectButtonsExcept(ctl, boxes, F) # ctl
         THEN Observe(timers \ { t })
         ELSE /\ timers' = timers \ { t }
              /\ UNCHANGED << debounceTimer, sinceMutation, burst >>
    /\ UNCHANGED << boxes, notice, toasts, modal, modals, extracted, request,
                    editorVars, ledgerVars, prefsVars >>

\* TICK_MS pass; a timer that is due fires before more time passes.
PageTick ==
  /\ timers # { }
  /\ \A t \in timers : t.left > 0
  /\ timers' = { [t EXCEPT !.left = @ - TICK_MS] : t \in timers }
  /\ sinceMutation' =
       IF sinceMutation < DEBOUNCE_MS THEN sinceMutation + TICK_MS
                                      ELSE sinceMutation
  /\ UNCHANGED << boxes, ctl, debounceTimer, burst, scans, notice,
                  reportVars, editorVars, ledgerVars, prefsVars >>

\* A GENERATE_REPLY message on its way, and what the transport can have
\* ready for the sendMessage callback: chrome.runtime.lastError, or a
\* response of the service worker (success, a provider failure, a denial
\* by the usage ledger).
Sent == [state |-> "sent", lastError |-> FALSE, resp |-> None]
Ready(resp) == [state |-> "ready", lastError |-> FALSE, resp |-> resp]
ChannelOutcomes ==
  { [state |-> "ready", lastError |-> TRUE, resp |-> None],
    Ready(SuccessResponse(1)),
    Ready(ErrorResponse(<< "Network error" >>)),
    Ready(ErrorResponse(RateLimitMessage(Usage(2, DAY_MS, 2), 0))) }

\* The message { type: "GENERATE_REPLY", payload: pd } sent after the
\* message prev.  Messages are told apart by an id, 1 or 2 in turn.
Message(prev, pd) ==
  [id |-> IF prev = None THEN 1 ELSE 3 - prev.id, payload |-> pd]

\* setButtonLoading(button, false); setButtonError(button, true)
ShowErrorStillLoading(c) == [c EXCEPT !.error = TRUE, !.errTimers = @ + 1]

ShowError(c) ==
  [c EXCEPT !.busy = FALSE, !.error = TRUE, !.errTimers = @ + 1]

\* showErrorNotification: one more toast in document.body.  Toasts are
\* numbered as they come.
ToastIds == 1..MaxErrTimers
AddToast(ts) == ts \cup { First(ToastIds \ ts) }

\* The user clicks the control appended to n while the post around it is
\* d.  A disabled button dispatches no click event; otherwise
\* handleButtonClick runs up to `await sendGenerateReplyMessage(postData)`
\* or, with no text, through its catch block.
ClickWhileBusy(n, d) ==
  /\ ctl[n] # None
  /\ ctl[n].errTimers < MaxErrTimers
  /\ toasts # ToastIds
  /\ LET pd == extractPostData(d)
     IN  /\ extracted' = pd
         /\ IF NoPostText(pd)
              THEN /\ ctl' = [ctl EXCEPT ![n] = ShowError(@)]
                   /\ notice' = EXTRACT_ERROR
                   /\ toasts' = AddToast(toasts)
                   /\ UNCHANGED request
              ELSE /\ ctl' = [ctl EXCEPT ![n] =
                                [@ EXCEPT !.busy = TRUE,
                                          !.chan = Append(@, Sent)]]
                   /\ request' = Message(request, pd)
                   /\ UNCHANGED << notice, toasts >>
  /\ scans' = 0
  /\ Observe(timers)
  /\ UNCHANGED << boxes, modal, modals, faulty, editorVars, ledgerVars, prefsVars >>

Click(n, d) ==
  /\ ctl[n] # None
  /\ ctl[n].errTimers < MaxErrTimers
  /\ toasts # ToastIds
  /\ IF ctl[n].busy
       THEN UNCHANGED pageVars
       ELSE /\ LET pd == extractPostData(d)
               IN  /\ extracted' = pd
                   /\ IF NoPostText(pd)
                        THEN /\ ctl' = [ctl EXCEPT ![n] = ShowError(@)]
                             /\ notice' = EXTRACT_ERROR
                             /\ toasts' = AddToast(toasts)
                             /\ UNCHANGED request
                        ELSE /\ ctl' = [ctl EXCEPT ![n] =
                                          [@ EXCEPT !.busy = TRUE,
                                                    !.chan = Append(@, Sent)]]
                             /\ request' = Message(request, pd)
                             /\ UNCHANGED << notice, toasts >>
            /\ scans' = 0
            /\ Observe(timers)
            /\ UNCHANGED << boxes, modal, modals, faulty, editorVars >>
  /\ UNCHANGED << ledgerVars, prefsVars >>

\* The transport has the outcome o of the message i of control n.
Deliver(n, i, o) ==
  /\ ctl[n] # None
  /\ i \in 1..Len(ctl[n].chan)
  /\ ctl[n].chan[i] = Sent
  /\ ctl' = [ctl EXCEPT ![n].chan[i] = o]
  /\ UNCHANGED << boxes, timers, debounceTimer, sinceMutation, burst, scans,
                  notice, reportVars, editorVars, ledgerVars, prefsVars >>

Remove(s, i) == SubSeq(s, 1, i - 1) \o SubSeq(s, i + 1, Len(s))

\* The control, the error toast (its message, and whether one was added)
\* and the modal shown, after the sendMessage callback has run with outcome
\* o and handleButtonClick has gone on to its end.
\* With no lastError and an undefined response the promise resolves with
\* undefined: the loading state is taken off, `response.success` throws and
\* the catch block shows the TypeError.
AfterCallbackHang(c, o, msg) ==
  IF o.lastError THEN [ctl |-> c, notice |-> msg, toast |-> FALSE, shown |-> None]
  ELSE IF o.resp = None
    THEN [ctl |-> ShowError(c), notice |-> TYPE_ERROR, toast |-> TRUE,
          shown |-> None]
  ELSE IF o.resp.success /\ o.resp.reply # ""
    THEN [ctl |-> [c EXCEPT !.busy = FALSE], notice |-> msg, toast |-> FALSE,
          shown |-> displayReply(o.resp.reply, OrZero(o.resp.usageCount))]
  ELSE [ctl |-> ShowError(c),
        notice |-> IF o.resp.error = << >> THEN GENERIC_ERROR ELSE o.resp.error,
        toast |-> TRUE, shown |-> None]

AfterCallback(c, o, msg) ==
  IF o.lastError
    THEN [ctl |-> ShowError(c), notice |-> CHANNEL_ERROR, toast |-> TRUE,
          shown |-> None]
  ELSE IF o.resp = None
    THEN [ctl |-> ShowError(c), notice |-> TYPE_ERROR, toast |-> TRUE,
          shown |-> None]
  ELSE IF o.resp.success /\ o.resp.reply # ""
    THEN [ctl |-> [c EXCEPT !.busy = FALSE], notice |-> msg, toast |-> FALSE,
          shown |-> displayReply(o.resp.reply, OrZero(o.resp.usageCount))]
  ELSE [ctl |-> ShowError(c),
        notice |-> IF o.resp.error = << >> THEN GENERIC_ERROR ELSE o.resp.error,
        toast |-> TRUE, shown |-> None]

\* The sendMessage callback of message i of control n runs.  displayReply
\* hides the modal that is open and shows a new one.
Callback(n, i) ==
  /\ ctl[n] # None
  /\ i \in 1..Len(ctl[n].chan)
  /\ ctl[n].chan[i] # Sent
  /\ toasts # ToastIds
  /\ LET c == [ctl[n] EXCEPT !.chan = Remove(@, i)]
         a == AfterCallback(c, ctl[n].chan[i], notice)
     IN  /\ ctl' = [ctl EXCEPT ![n] = a.ctl]
         /\ notice' = a.notice
         /\ toasts' = IF a.toast THEN AddToast(toasts) ELSE toasts
         /\ modal' = IF a.shown # None THEN a.shown ELSE modal
         /\ modals' = IF a.shown # None THEN showReplyModal(modals) ELSE modals
  /\ scans' = 0
  /\ Observe(timers)
  /\ UNCHANGED << boxes, faulty, extracted, request, editorVars, ledgerVars, prefsVars >>

\* A timer of setButtonError fires on the control appended to n: the error
\* class is removed.  (A class change is not a child-list mutation.)
ErrorDisplayEnds(n) ==
  /\ ctl[n] # None
  /\ ctl[n].errTimers > 0
  /\ ctl' = [ctl EXCEPT ![n].errTimers = @ - 1, ![n].error = FALSE]
  /\ UNCHANGED << boxes, timers, debounceTimer, sinceMutation, burst, scans,
                  notice, reportVars, editorVars, ledgerVars, prefsVars >>

\* The timers of showErrorNotification have fired for toast i:
\* toast.remove(), a mutation of document.body.
ToastEnds(i) ==
  /\ i \in toasts
  /\ toasts' = toasts \ { i }
  /\ scans' = 0
  /\ Observe(timers)
  /\ UNCHANGED << boxes, ctl, notice, modal, modals, faulty, extracted, request,
                  editorVars, ledgerVars, prefsVars >>

\* The user picks an action (Copy, Insert) in a modal of the page: the
\* onAction callback of displayReply runs the action and then, when
\* currentModal is set, hides that modal and sets currentModal to null.
\* ReplyModal.hide() removes the element from document.body.
HideModal ==
  /\ modal # None
  /\ modals.attached # { }
  /\ modals' = [attached |-> modals.attached \ { modals.current }, current |-> 0]
  /\ modal' = IF modals'.attached = { } THEN None ELSE modal
  /\ scans' = 0
  /\ Observe(timers)
  /\ UNCHANGED << boxes, ctl, notice, toasts, faulty, extracted, request,
                  editorVars, ledgerVars, prefsVars >>

\* The user closes the modal m (close button, backdrop, Escape): the modal
\* hides itself; currentModal keeps referring to it.
CloseModal(m) ==
  /\ m \in modals.attached
  /\ modals' = [modals EXCEPT !.attached = @ \ { m }]
  /\ modal' = IF modals'.attached = { } THEN None ELSE modal
  /\ scans' = 0
  /\ Observe(timers)
  /\ UNCHANGED << boxes, ctl, notice, toasts, faulty, extracted, request,
                  editorVars, ledgerVars, prefsVars >>

\* The content script has run init(): one injectButtons pass over the page
\* as loaded, then the observer is set up.
PageLoaded(bx) ==
  /\ boxes = bx
  /\ ctl = injectButtons(NoControls, bx)
  /\ timers = { }
  /\ debounceTimer = 0
  /\ sinceMutation = DEBOUNCE_MS
  /\ burst = 0
  /\ scans = 1
  /\ notice = << >>
  /\ toasts = { }
  /\ modal = None
  /\ modals = NoModals
  /\ faulty = { }
  /\ extracted = None
  /\ request = None
  /\ EditorAtRest

\* The scanning of a page nobody clicks in.
InitScan ==
  /\ LedgerAtRest
  /\ PrefsAtRest
  /\ \E bx \in SUBSET PageRoots : Cardinality(bx) <= MaxBoxes /\ PageLoaded(bx)

NextScan ==
  \/ \E r \in PageRoots : HostAddBox(r)
  \/ \E r \in PageRoots : HostRemoveBox(r)
  \/ \E n \in Nodes : HostRemoveControl(n)
  \/ HostMutate
  \/ Rescan
  \/ PageTick

SpecScan == InitScan /\ [][NextScan]_vars

\* Timers fire when due and time goes on.
SpecScanFair ==
  /\ SpecScan
  /\ WF_vars(PageTick)
  /\ WF_vars(Rescan)

\* A page with one comment area (node 1), its control and a user.
InitControl == LedgerAtRest /\ PrefsAtRest /\ PageLoaded({ 1 })

NextControl ==
  \/ \E n \in Nodes, d \in Posts : Click(n, d)
  \/ \E n \in Nodes, i \in 1..2, o \in ChannelOutcomes : Deliver(n, i, o)
  \/ \E n \in Nodes, i \in 1..2 : Callback(n, i)
  \/ \E n \in Nodes : ErrorDisplayEnds(n)
  \/ \E i \in ToastIds : ToastEnds(i)
  \/ HideModal
  \/ \E n \in Nodes : HostRemoveControl(n)
  \/ HostMutate
  \/ Rescan
  \/ PageTick

SpecControl == InitControl /\ [][NextControl]_vars

\* ------------------------------------------------------------ end to end
\* One action control, its user, and the service worker that answers its
\* messages over a channel that delivers: the message sent last is handled
\* by the invocation with its id, and the response handed to sendResponse
\* is the one the sendMessage callback gets.
MessageId(p) == 2 - (p % 2)

InFlight ==
  \E n \in Nodes :
    ctl[n] # None /\ \E i \in 1..Len(ctl[n].chan) : ctl[n].chan[i] = Sent

Pickup(p) ==
  /\ InFlight
  /\ request.id = MessageId(p)
  /\ Receive(p, request.payload.postText)

Respond(n, i) ==
  /\ \E p \in Procs :
       /\ request # None
       /\ request.id = MessageId(p)
       /\ pc[p] = "done"
       /\ \A q \in Procs : q > p => pc[q] = "idle"
  /\ Deliver(n, i, Ready(last.resp))

InitEndToEnd ==
  /\ now \in { 0, 1 }
  /\ ticks = 0
  /\ settings \in SettingsSet
  /\ usage \in InitUsages
  /\ pc = [p \in Procs |-> "idle"]
  /\ loc = [p \in Procs |-> NoLoc]
  /\ last = [loc |-> NoLoc, resp |-> None]
  /\ WorkerLoaded
  /\ PrefsAtRest
  /\ PageLoaded({ 1 })

\* The posts the user clicks under: no container, no content, and a text
\* with neither author nor date.
EndToEndPosts ==
  { Post(FALSE, None, None, None),
    Post(TRUE, None, Text(0, 3), Text(0, 2)),
    Post(TRUE, Text(1, MIN_POST_LEN), None, None) }

NextEndToEnd ==
  \/ \E n \in Nodes, d \in EndToEndPosts : Click(n, d)
  \/ \E p \in Procs : Pickup(p)
  \/ \E p \in Procs : LoadSettings(p)
  \/ \E p \in Procs : GetUsage(p)
  \/ \E p \in Procs : RollSettings(p)
  \/ \E p \in Procs : RollSave(p)
  \/ \E p \in Procs : SaveUsage(p)
  \/ \E p \in Procs, o \in Outcomes : Generate(p, o)
  \/ \E n \in Nodes, i \in 1..2 : Respond(n, i)
  \/ \E n \in Nodes, i \in 1..2 : Callback(n, i)
  \/ \E n \in Nodes : ErrorDisplayEnds(n)
  \/ \E i \in ToastIds : ToastEnds(i)
  \/ HideModal

SpecEndToEnd == InitEndToEnd /\ [][NextEndToEnd]_vars

\* A page with one comment area (node 3, holding the nested box 4), a
\* user whose clicks all fail, in every way, a host page that re-renders
\* the area and a script whose injection throws now and then.  The timers of
\* showErrorNotification fire.
InitResilient == LedgerAtRest /\ PrefsAtRest /\ PageLoaded({ 3 })

ClickPosts ==
  { Post(FALSE, None, None, None),
    Post(TRUE, Text(1, MIN_POST_LEN), None, None) }

FailureOutcomes == { o \in ChannelOutcomes : o.lastError \/ ~o.resp.success }

NextResilient ==
  \/ \E n \in Nodes, d \in ClickPosts : Click(n, d)
  \/ \E n \in Nodes, i \in 1..2, o \in FailureOutcomes : Deliver(n, i, o)
  \/ \E n \in Nodes, i \in 1..2 : Callback(n, i)
  \/ \E n \in Nodes : ErrorDisplayEnds(n)
  \/ \E i \in ToastIds : ToastEnds(i)
  \/ \E n \in Nodes : HostRemoveControl(n)
  \/ Rescan
  \/ \E F \in SUBSET CommentBoxNodes : RescanExcept(F)
  \/ PageTick

SpecResilient ==
  /\ InitResilient
  /\ [][NextResilient]_vars
  /\ \A i \in ToastIds : WF_vars(ToastEnds(i))

\* ------------------------------------------------------ busy controls
\* The same control on a page the host leaves alone, over a transport that
\* calls every sendMessage callback: with lastError, with a response, or
\* with neither (a listener that answered nothing).  The callback of a
\* message that has its outcome runs, and the timers of the toasts fire.
\* The rescan timer is set by the script's own DOM writes but is not
\* followed to its firing here: a pass over a page whose comment box has
\* its control changes no control (see SpecControl).
BusyOutcomes == ChannelOutcomes \cup { Ready(None) }

\* The transport settles a message that is on its way; the callback of a
\* settled message runs.
Settle == \E n \in Nodes, i \in 1..2, o \in BusyOutcomes : Deliver(n, i, o)
CallBack == \E n \in Nodes, i \in 1..2 : Callback(n, i)

NextBusy ==
  \/ \E n \in Nodes, d \in ClickPosts : Click(n, d)
  \/ Settle
  \/ CallBack
  \/ \E n \in Nodes : ErrorDisplayEnds(n)
  \/ \E i \in ToastIds : ToastEnds(i)
  \/ HideModal

SpecBusy ==
  /\ InitControl
  /\ [][NextBusy]_vars
  /\ WF_vars(Settle)
  /\ WF_vars(CallBack)
  /\ \A i \in ToastIds : WF_vars(ToastEnds(i))

\* ------------------------------------------------- the script's own writes
\* A page whose host has stopped adding and removing comment areas: what
\* changes its child lists from now on are the writes of the script (a
\* control appended, the content of a control swapped, toasts and the modal
\* added and removed) and a control the host takes out when it renders a
\* comment box again.
NextOwnWrites ==
  \/ \E n \in Nodes, d \in ClickPosts : Click(n, d)
  \/ \E n \in Nodes, i \in 1..2, o \in ChannelOutcomes : Deliver(n, i, o)
  \/ \E n \in Nodes, i \in 1..2 : Callback(n, i)
  \/ \E n \in Nodes : ErrorDisplayEnds(n)
  \/ \E i \in ToastIds : ToastEnds(i)
  \/ HideModal
  \/ \E n \in Nodes : HostRemoveControl(n)
  \/ Rescan
  \/ PageTick

SpecOwnWrites == InitControl /\ [][NextOwnWrites]_vars

\* --------------------------------------------------------- reply modals
\* A page with two controls (on the form 2 and on the toolbar 5) whose
\* messages are all answered with a reply; the user acts in the modal or
\* closes it, or leaves it open and clicks again.
SuccessOutcomes == { Ready(SuccessResponse(1)), Ready(SuccessResponse(2)) }

InitModal == LedgerAtRest /\ PrefsAtRest /\ PageLoaded({ 1, 3 })

NextModal ==
  \/ \E n \in Nodes : Click(n, Post(TRUE, Text(1, MIN_POST_LEN), None, None))
  \/ \E n \in Nodes, i \in 1..2, o \in SuccessOutcomes : Deliver(n, i, o)
  \/ \E n \in Nodes, i \in 1..2 : Callback(n, i)
  \/ HideModal
  \/ \E m \in ModalIds : CloseModal(m)

SpecModal == InitModal /\ [][NextModal]_vars

\* --------------------------------------------------------- text insertion
\* The texts inserted: the first n characters of one reply, a character
\* being named by its position.
InsertTexts == { [j \in 1..n |-> j] : n \in 0..MaxLen }

\* What the editor holds when an insert action begins: nothing, or a draft
\* of the user (one character that is in no reply).
DraftChar == 0
InitContents == { << >>, << DraftChar >> }

\* fireInputEvents: an input event, then keyup
fireInputEvents == << "input", "keyup" >>

\* fastInsert(element, text): the content it leaves and the events it fires
fastInsert(text) ==
  [content |-> text,
   fired |-> << "focus" >> \o fireInputEvents \o << "change", "blur" >>]

\* The steps of an insert action change the child list of the editor,
\* which the MutationObserver of the content script sees.
EditorMutation ==
  /\ scans' = 0
  /\ Observe(timers)
  /\ UNCHANGED << boxes, ctl, notice, reportVars, ledgerVars, prefsVars >>

\* The user picks "insert" in the modal: insertTextIntoCommentBox(commentBox,
\* text, stealth) runs, with the editor found in the comment box or not.
\* Without typing simulation fastInsert does it all; with it simulateTyping
\* runs up to `await sleep(initialDelay)`.
StartInsert(k, text, stealth, found) ==
  /\ ins[k].pc = "idle"
  /\ \A j \in 1..(k - 1) : ins[j].pc # "idle"
  /\ IF ~found
       THEN /\ ins' = [ins EXCEPT ![k] =
                         [NoInsertion EXCEPT !.pc = "done", !.text = text]]
            /\ UNCHANGED << content, scriptVars, ledgerVars, prefsVars >>
       ELSE IF stealth
         THEN /\ ins' = [ins EXCEPT ![k] =
                           [NoInsertion EXCEPT !.pc = "sleep", !.text = text]]
              /\ UNCHANGED << content, scriptVars, ledgerVars, prefsVars >>
         ELSE /\ content' = fastInsert(text).content
              /\ ins' = [ins EXCEPT ![k] =
                           [pc |-> "done", text |-> text, i |-> Len(text),
                            fired |-> fastInsert(text).fired, ok |-> TRUE]]
              /\ EditorMutation

\* simulateTyping after its initial delay: the editor is cleared and gets
\* the focus, and the first character is typed; with no character to type
\* the final events are fired.
TypeFirst(k) ==
  /\ ins[k].pc = "sleep"
  /\ IF Len(ins[k].text) = 0
       THEN /\ content' = << >>
            /\ ins' = [ins EXCEPT ![k].pc = "done", ![k].ok = TRUE,
                          ![k].fired = << "focus", "change", "blur" >>]
       ELSE /\ content' = << ins[k].text[1] >>
            /\ ins' = [ins EXCEPT ![k].pc = "typing", ![k].i = 1,
                          ![k].fired = << "focus" >> \o fireInputEvents]
  /\ EditorMutation

\* simulateTyping after the delay that follows character i (and the pause
\* it may add): `element.textContent += char` for the next character, or the
\* final events after the last one.
TypeNext(k) ==
  /\ ins[k].pc = "typing"
  /\ IF ins[k].i < Len(ins[k].text)
       THEN /\ content' = Append(content, ins[k].text[ins[k].i + 1])
            /\ ins' = [ins EXCEPT ![k].i = @ + 1,
                          ![k].fired = @ \o fireInputEvents]
            /\ EditorMutation
       ELSE /\ ins' = [ins EXCEPT ![k].pc = "done", ![k].ok = TRUE,
                          ![k].fired = @ \o << "change", "blur" >>]
            /\ UNCHANGED << content, scriptVars, ledgerVars, prefsVars >>

\* A comment box with a draft or none, in which replies are inserted.
InitInsert ==
  /\ LedgerAtRest
  /\ PrefsAtRest
  /\ boxes = { 1 }
  /\ ctl = injectButtons(NoControls, { 1 })
  /\ timers = { }
  /\ debounceTimer = 0
  /\ sinceMutation = DEBOUNCE_MS
  /\ burst = 0
  /\ scans = 1
  /\ notice = << >>
  /\ toasts = { }
  /\ modal = None
  /\ modals = NoModals
  /\ faulty = { }
  /\ extracted = None
  /\ request = None
  /\ content \in InitContents
  /\ ins = [k \in Insertions |-> NoInsertion]

NextInsert ==
  \/ \E k \in Insertions, text \in InsertTexts, stealth, found \in BOOLEAN :
       StartInsert(k, text, stealth, found)
  \/ \E k \in Insertions : TypeFirst(k)
  \/ \E k \in Insertions : TypeNext(k)

SpecInsert == InitInsert /\ [][NextInsert]_vars

\* ------------------------------------------------------------ properties
\* The count of the stored usage record, 0 when nothing is stored.
PersistedCount == IF usage = None THEN 0 ELSE usage.count

\* The window of the record seen by a finished or running invocation had
\* expired when it was read.
Expired(l) == l.tNow >= l.seen.resetDate

\* The count resetUsageIfExpired handed to trackUsage.
BaseCount(l) == IF Expired(l) THEN 0 ELSE l.seen.count

\* A post text the gateway must reject.
BadText(t) == t.missing \/ t.len < MIN_POST_LEN \/ t.len > MAX_POST_LEN

\* C1: with messages handled one after another, inside one window and with
\* the limit unchanged the stored count never decreases and never passes
\* the limit, and a trackUsage that finds count >= limit in an unexpired
\* window is denied and stores nothing.
QuotaMonotone ==
  [][ /\ (usage = None /\ usage' # None) => usage'.count <= usage'.limit
      /\ ( /\ usage # None
           /\ usage' # None
           /\ usage'.resetDate = usage.resetDate
           /\ usage'.limit = usage.limit )
         => /\ usage'.count >= usage.count
            /\ usage.count <= usage.limit => usage'.count <= usage'.limit
      /\ \A p \in Procs :
           ( /\ pc[p] = "getUsage"
             /\ pc'[p] # "getUsage"
             /\ loc[p].kind = "reply"
             /\ usage # None
             /\ now < usage.resetDate
             /\ usage.count >= usage.limit )
           => /\ pc'[p] = "done"
              /\ last'.loc.denied
              /\ last'.resp.rateLimitReached
              /\ last'.loc.writes = 0
              /\ usage' = usage
    ]_vars

\* C1 witness: a window opened in this behaviour was filled up to its limit
\* and the following request was denied.
QuotaMonotoneWitness ==
  /\ last.loc.kind = "reply"
  /\ last.loc.denied
  /\ last.loc.writes = 0
  /\ usage # None
  /\ usage.resetDate > DAY_MS
  /\ usage.count = usage.limit
  /\ now < usage.resetDate

\* C2: every trackUsage that stores its record raises the stored count by
\* exactly one (no update is lost when requests are in flight together).
NoLostUpdate ==
  [][ \A p \in Procs :
        (pc[p] = "saveUsage" /\ pc'[p] = "generate")
        => usage'.count = PersistedCount + 1
    ]_vars

\* C3: a read with roll or a trackUsage that finds now >= resetDate goes
\* through the roll; the roll stores and returns count 0 and a resetDate 24 h
\* after the call's clock reading, and trackUsage then stores and returns
\* that record with count 1.
WindowRollover ==
  [][ \A p \in Procs :
        /\ ( /\ pc[p] = "getUsage"
             /\ pc'[p] # "getUsage"
             /\ usage # None
             /\ now >= usage.resetDate )
           => /\ pc'[p] = "rollSettings"
              /\ loc'[p].tNow = now
        /\ (pc[p] = "rollSave" /\ pc'[p] # "rollSave")
           => /\ loc[p].seen.resetDate <= loc[p].tNow
              /\ usage' = Usage(0, loc[p].tNow + DAY_MS, usage'.limit)
              /\ loc[p].kind = "check"
                 => /\ pc'[p] = "done"
                    /\ last'.loc.rec = usage'
                    /\ last'.resp.currentCount = 0
                    /\ last'.resp.resetDate = loc[p].tNow + DAY_MS
              /\ loc[p].kind = "reply"
                 => /\ pc'[p] = "saveUsage"
                    /\ loc'[p].rec =
                         Usage(1, loc[p].tNow + DAY_MS, usage'.limit)
        /\ (pc[p] = "saveUsage" /\ pc'[p] = "generate" /\ Expired(loc[p]))
           => /\ usage' = loc'[p].rec
              /\ usage'.count = 1
              /\ usage'.resetDate = loc[p].tNow + DAY_MS
    ]_vars

\* C3 witness: a trackUsage found the window expired some time ago and has
\* stored the rolled record with count 1.
WindowRolloverWitness ==
  \E p \in Procs :
    /\ pc[p] = "generate"
    /\ loc[p].seen.resetDate < loc[p].tNow
    /\ usage = Usage(1, loc[p].tNow + DAY_MS, settings.rateLimit)

\* C4: a request whose post text is missing or, trimmed, empty, shorter than
\* 5 or longer than 10000 characters never gets past validation: it is
\* answered success:false with no read or write of the usage record and no
\* call of the generator.
InputErrorGate ==
  /\ \A p \in Procs : loc[p].kind = "reply" => ~BadText(loc[p].text)
  /\ (last.loc.kind = "reply" /\ BadText(last.loc.text))
     => /\ last.resp.success = FALSE
        /\ last.loc.cfg = None
        /\ ~last.loc.tracked
        /\ last.loc.reads = 0
        /\ last.loc.writes = 0
        /\ last.loc.gen = 0

\* C4 witness: a text of 5 characters, 4 once trimmed, has been rejected
\* while a usage record is stored.
InputErrorGateWitness ==
  /\ last.loc.kind = "reply"
  /\ last.loc.text = Text(1, MIN_POST_LEN - 1)
  /\ last.resp.success = FALSE
  /\ usage # None

\* C5: a request that loads settings whose API key is empty or white space
\* only is answered success:false before trackUsage: no read or write of the
\* usage record and no call of the generator.
ConfigErrorGate ==
  /\ \A p \in Procs :
       loc[p].cfg # None => loc[p].cfg.apiKey \notin { "", "blank" }
  /\ (last.loc.cfg # None /\ last.loc.cfg.apiKey \in { "", "blank" })
     => /\ last.resp.success = FALSE
        /\ ~last.loc.tracked
        /\ last.loc.reads = 0
        /\ last.loc.writes = 0
        /\ last.loc.gen = 0

\* C5 witness: a valid request was rejected for a white-space API key.
ConfigErrorGateWitness ==
  /\ last.loc.kind = "reply"
  /\ last.loc.cfg # None
  /\ last.loc.cfg.apiKey = "blank"
  /\ last.resp.error = << "API key not configured" >>

\* C6: a request whose trackUsage reads count >= limit in an unexpired window
\* goes no further: it is answered success:false with rateLimitReached, it
\* stores nothing and the generator is not called for it.
QuotaDenial ==
  /\ \A p \in Procs :
       (loc[p].kind = "reply" /\ loc[p].seen # None /\ ~Expired(loc[p]))
       => loc[p].seen.count < loc[p].seen.limit
  /\ ( /\ last.loc.kind = "reply"
       /\ last.loc.seen # None
       /\ ~Expired(last.loc)
       /\ last.loc.seen.count >= last.loc.seen.limit )
     => /\ last.resp.success = FALSE
        /\ last.resp.rateLimitReached
        /\ last.loc.writes = 0
        /\ last.loc.gen = 0

\* C6 witness: a request found count = limit and was denied; the stored
\* record is the one it read.
QuotaDenialWitness ==
  /\ last.loc.kind = "reply"
  /\ last.loc.seen # None
  /\ ~Expired(last.loc)
  /\ last.loc.seen.count = last.loc.seen.limit
  /\ last.resp.rateLimitReached
  /\ usage = last.loc.seen

\* C7 as stated: a request that reaches trackUsage writes the usage record
\* exactly once, and one rejected earlier never.
OneWritePerRequest ==
  last.loc.kind = "reply"
  => last.loc.writes = (IF last.loc.tracked THEN 1 ELSE 0)

\* C7 amended: a request whose trackUsage succeeds writes the usage record
\* once, or twice (reset, then increment) when the window had expired,
\* whatever the generator does; a denied request and one rejected before
\* trackUsage write nothing.
LedgerWrites ==
  /\ last.loc.kind = "reply"
     => last.loc.writes =
          (IF ~last.loc.tracked \/ last.loc.denied THEN 0
           ELSE IF Expired(last.loc) THEN 2 ELSE 1)
  /\ \A p \in Procs :
       pc[p] = "generate"
       => loc[p].writes = (IF Expired(loc[p]) THEN 2 ELSE 1)

\* C7 witness: a request rolled the window over, consumed, and its generator
\* call failed: two writes.
LedgerWritesWitness ==
  /\ last.loc.kind = "reply"
  /\ last.loc.out # None
  /\ ~last.loc.out.ok
  /\ Expired(last.loc)
  /\ last.loc.writes = 2

\* C8: with messages handled one after another, when the generator fails
\* after a successful trackUsage the answer is success:false with the
\* provider's message and the stored count is left at the incremented value.
NoRefund ==
  [][ \A p \in Procs :
        (pc[p] = "generate" /\ pc'[p] = "done" /\ ~last'.loc.out.ok)
        => /\ last'.resp.success = FALSE
           /\ last'.resp.error = last'.loc.out.msg
           /\ usage' = usage
           /\ usage'.count = BaseCount(loc[p]) + 1
    ]_vars

\* C8 witness: the generator failed with a network error and the stored
\* count is the incremented one.
NoRefundWitness ==
  /\ last.loc.kind = "reply"
  /\ last.loc.out # None
  /\ ~last.loc.out.ok
  /\ last.resp.error = << "Network error" >>
  /\ usage = last.loc.rec
  /\ usage.count = BaseCount(last.loc) + 1

\* C9: a response has rateLimitReached exactly when the usage ledger denied
\* the request.
RateLimitFlagIffDenied ==
  last.loc.kind = "reply"
  => (last.resp.rateLimitReached <=> last.loc.denied)

\* C10: trackUsage stores the record it returns, and on generator success
\* the answer is success:true with usageCount the count of that record, one
\* more than the count trackUsage started from; from count 0 and limit 50 it
\* is 1.
UsageCountFromTrack ==
  [][ \A p \in Procs :
        /\ (pc[p] = "saveUsage" /\ pc'[p] = "generate")
           => /\ usage' = loc[p].rec
              /\ usage'.count = BaseCount(loc[p]) + 1
        /\ (pc[p] = "generate" /\ pc'[p] = "done" /\ last'.loc.out.ok)
           => /\ last'.resp.success
              /\ ~last'.resp.rateLimitReached
              /\ last'.resp.usageCount = loc[p].rec.count
              /\ last'.resp.usageCount = BaseCount(loc[p]) + 1
              /\ ( /\ ~Expired(loc[p])
                   /\ loc[p].seen.count = 0
                   /\ loc[p].seen.limit = DEFAULT_RATE_LIMIT )
                 => last'.resp.usageCount = 1
    ]_vars

\* C10 witness: with nothing stored yet (count 0, limit 50) a request
\* succeeded with usageCount 1 and the stored count is 1.
UsageCountFromTrackWitness ==
  /\ last.loc.kind = "reply"
  /\ last.resp.success
  /\ last.resp.usageCount = 1
  /\ last.loc.seen = Usage(0, DAY_MS, DEFAULT_RATE_LIMIT)
  /\ usage = Usage(1, DAY_MS, DEFAULT_RATE_LIMIT)

\* The controls inside the comment box b (b.querySelectorAll(".ai-reply-btn")).
ControlsIn(b) == { n \in Descendants(b) \cup { b } : ctl[n] # None }

\* C11: once injectButtons has run any number of times (at least once) on
\* a page that has not changed since, every element matched by the
\* comment-box locator, nested ones included, holds exactly one action
\* control.
ScanIdempotence ==
  scans >= 1 =>
    \A b \in findCommentBoxes(boxes) : Cardinality(ControlsIn(b)) = 1

\* C12: a control never has more than one GENERATE_REPLY message
\* outstanding, and no step sends a message for a control that is busy.
OneOutstanding ==
  [][\A n \in Nodes :
       ctl'[n] # None =>
         /\ Len(ctl'[n].chan) <= 1
         /\ (ctl[n] # None /\ ctl[n].busy) =>
              Len(ctl'[n].chan) <= Len(ctl[n].chan)]_vars

\* C12 witness: a busy control has its one message outstanding and the
\* response to it is ready, so that clicks on the busy control were possible
\* all the while.
OneOutstandingWitness ==
  \E n \in Nodes :
    /\ ctl[n] # None
    /\ ctl[n].busy
    /\ Len(ctl[n].chan) = 1
    /\ ctl[n].chan[1] # Sent
    /\ ~ctl[n].chan[1].lastError

\* The state of a control as the page shows it.
ControlState(c) ==
  IF c = None THEN "absent"
  ELSE IF c.busy THEN "busy"
  ELSE IF c.error THEN "error"
  ELSE "idle"

\* The changes of state the state machine allows in one step: attaching,
\* activation, the two ways out of busy, the end of the error display, an
\* activation that fails before any await (idle to busy to error in one
\* step), and removal by the host page.
ControlTransitions ==
  { << "absent", "idle" >>, << "idle", "busy" >>, << "busy", "idle" >>,
    << "busy", "error" >>, << "error", "idle" >>, << "idle", "error" >>,
    << "idle", "absent" >>, << "busy", "absent" >>, << "error", "absent" >> }

\* C13: every control follows absent -> idle -> busy -> {success | error}
\* -> idle: it becomes busy only from idle and leaves the error state only
\* for idle.
ControlStateMachine ==
  [][\A n \in Nodes :
       ControlState(ctl'[n]) # ControlState(ctl[n]) =>
         << ControlState(ctl[n]), ControlState(ctl'[n]) >>
           \in ControlTransitions]_vars

\* C14: when the sendMessage callback of a control's outstanding message
\* runs with chrome.runtime.lastError set, the control is no longer busy,
\* shows the error state with one more error timer pending, and the error
\* toast carries the transport's message.
ChannelFailureSurfaces ==
  [][\A n \in Nodes :
       ( /\ ctl[n] # None
         /\ Len(ctl[n].chan) = 1
         /\ ctl[n].chan[1].lastError
         /\ ctl'[n] # None
         /\ ctl'[n].chan = << >> ) =>
       ( /\ ~ctl'[n].busy
         /\ ctl'[n].error
         /\ ctl'[n].errTimers = ctl[n].errTimers + 1
         /\ notice' = CHANNEL_ERROR )]_vars

\* C14 witness: a delivery failure has been handled: the toast shows the
\* transport's message and the control shows the error, enabled again.
ChannelFailureSurfacesWitness ==
  /\ notice = CHANNEL_ERROR
  /\ \E n \in Nodes :
       /\ ctl[n] # None
       /\ ctl[n].error
       /\ ~ctl[n].busy
       /\ ctl[n].chan = << >>

\* C15: at most one debounce timer is pending; while the last mutation is
\* less than 300 ms old exactly the timer due 300 ms after it is pending;
\* an injectButtons pass runs only 300 ms after the last mutation and
\* leaves no timer behind, unless it appended a control itself.
DebouncedRescan ==
  [][ /\ Cardinality(timers') <= 1
      /\ sinceMutation' < DEBOUNCE_MS =>
           timers' = { [id |-> debounceTimer',
                        left |-> DEBOUNCE_MS - sinceMutation'] }
      /\ scans' = scans + 1 =>
           /\ sinceMutation = DEBOUNCE_MS
           /\ ctl' = ctl => timers' = { } ]_vars

\* C15 witness: a burst of at least two mutations less than 300 ms apart
\* has been followed by its pass, and no timer is pending.
DebouncedRescanWitness ==
  /\ burst >= 2
  /\ scans >= 1
  /\ timers = { }
  /\ sinceMutation = DEBOUNCE_MS

\* C16: a comment box that is in the page without a control eventually
\* has one or leaves the page, however the page goes on mutating.
SelfHealing ==
  \A b \in CommentBoxNodes :
    (b \in findCommentBoxes(boxes) /\ ~hasButtonInjected(ctl, b))
      ~> (b \notin findCommentBoxes(boxes) \/ hasButtonInjected(ctl, b))

\* A settings record as the specification types it: each field absent or
\* of its type and inside its range.
ValidSettings(r) ==
  /\ r.apiKey = Undefined \/ r.apiKey.t = "string"
  /\ r.tone = Undefined
       \/ r.tone \in { Str("professional"), Str("polite"), Str("friendly"),
                       Str("concise") }
  /\ r.maxLength = Undefined
       \/ (r.maxLength.t = "number" /\ ~r.maxLength.nan
           /\ r.maxLength.n >= 100 /\ r.maxLength.n <= 1000)
  /\ r.defaultAction = Undefined
       \/ r.defaultAction \in { Str("insert"), Str("copy") }
  /\ r.rateLimit = Undefined
       \/ (r.rateLimit.t = "number" /\ ~r.rateLimit.nan
           /\ r.rateLimit.n >= 1 /\ r.rateLimit.n <= 10000)
  /\ r.stealthMode = Undefined \/ r.stealthMode.t = "boolean"

\* C17: a save of a record with an invalid field throws and leaves the
\* stored settings as they were, and what is stored is always a valid
\* record.
SaveValidates ==
  [][ /\ (lastOp'.op \in { "save", "ui" } /\ ~ValidSettings(lastOp'.arg)) =>
           (lastOp'.threw # "" /\ sync' = sync)
      /\ sync' = None \/ ValidSettings(sync') ]_vars

\* C17 witness: with a record stored, a save of a record whose maxLength
\* is not a number has thrown.
SaveValidatesWitness ==
  /\ lastOp.op = "save"
  /\ lastOp.arg.maxLength = NaN
  /\ lastOp.threw # ""
  /\ sync # None

\* C18: maxLength 99 and 1001 and rateLimit 0 and 10001 are rejected;
\* maxLength 100 and 1000 and rateLimit 1 and 10000 are accepted in a
\* record whose other fields are accepted.
ValidationBoundaries ==
  /\ (lastOp.op \in { "save", "ui" }
      /\ lastOp.arg.maxLength \in { Num(99), Num(1001) }) => lastOp.threw # ""
  /\ (lastOp.op \in { "save", "ui" }
      /\ lastOp.arg.rateLimit \in { Num(0), Num(10001) }) => lastOp.threw # ""
  /\ (lastOp.op = "save"
      /\ \E b \in { BaseRecord, EmptyRecord }, v \in { Num(100), Num(1000) } :
           lastOp.arg = [b EXCEPT !.maxLength = v]) => lastOp.threw = ""
  /\ (lastOp.op = "save"
      /\ \E b \in { BaseRecord, EmptyRecord }, v \in { Num(1), Num(10000) } :
           lastOp.arg = [b EXCEPT !.rateLimit = v]) => lastOp.threw = ""

\* C18 witness: a record with rateLimit 10000 has been saved and stored.
ValidationBoundariesWitness ==
  /\ lastOp.op = "save"
  /\ lastOp.threw = ""
  /\ lastOp.arg.rateLimit = Num(10000)
  /\ sync # None
  /\ sync.rateLimit = Num(10000)

\* r merged over DEFAULT_SETTINGS: every field of r wins, a field absent
\* from r takes the default.
MergedOverDefaults(r) ==
  [f \in SettingsFields |->
     IF r[f] = Undefined THEN DEFAULT_SETTINGS[f] ELSE r[f]]

\* C19 as stated: for every valid record r, getSettings() right after
\* saveSettings(r) returns r merged over DEFAULT_SETTINGS.
RoundTripOfValid ==
  (lastOp.op = "getAfterSave" /\ ValidSettings(lastOp.arg)) =>
    lastOp.ret = MergedOverDefaults(lastOp.arg)

\* C19 amended: for every valid record r whose API key is absent, empty or
\* at least 10 characters long, getSettings() right after saveSettings(r)
\* returns r merged over DEFAULT_SETTINGS.
RoundTrip ==
  ( /\ lastOp.op = "getAfterSave"
    /\ ValidSettings(lastOp.arg)
    /\ lastOp.arg.apiKey = Undefined
         \/ Len(lastOp.arg.apiKey.s) = 0 \/ Len(lastOp.arg.apiKey.s) >= 10 ) =>
    ( /\ lastOp.threw = ""
      /\ lastOp.ret = MergedOverDefaults(lastOp.arg) )

\* C19 witness: a record holding only a tone was saved and read back with
\* the defaults in its other fields.
RoundTripWitness ==
  /\ lastOp.op = "getAfterSave"
  /\ lastOp.arg = [EmptyRecord EXCEPT !.tone = Str("friendly")]
  /\ lastOp.ret = [DEFAULT_SETTINGS EXCEPT !.tone = Str("friendly")]

\* C20: the write of resetUsage stores count 0, resetDate 24 h after the
\* Date.now() it read, and the limit that was stored (the default limit
\* when nothing was), whether the window had expired or not.
ManualReset ==
  [][\A p \in Procs :
       (pc[p] = "resetSave" /\ pc'[p] = "done") =>
         usage' = Usage(0, loc[p].tNow + DAY_MS,
                        IF usage = None THEN DEFAULT_RATE_LIMIT
                                        ELSE usage.limit)]_vars

\* C20 witness: a reset made inside an unexpired window that had requests
\* counted has stored count 0 and a new window of 24 h.
ManualResetWitness ==
  /\ last.loc.kind = "reset"
  /\ last.loc.seen.count > 0
  /\ last.loc.tNow < last.loc.seen.resetDate
  /\ usage = Usage(0, last.loc.tNow + DAY_MS, last.loc.seen.limit)

\* C21: the write of updateRateLimit(n), n >= 1, and the write of
\* updateUsageLimit store the record that was stored with only its limit
\* replaced (count and resetDate as they were; count 0 and a window of 24 h
\* when nothing was stored); no other step of the two changes the record,
\* and updateRateLimit(n) with n < 1 throws without reading or writing it.
SetLimitFrame ==
  [][\A p \in Procs :
       /\ (pc[p] = "limitSave" /\ pc'[p] = "done") =>
            /\ loc[p].arg >= 1
            /\ usage' = [getUsage(usage, loc[p].tNow) EXCEPT
                           !.limit = loc[p].arg]
       /\ (pc[p] = "syncSave" /\ pc'[p] = "done") =>
            usage' = [getUsage(usage, loc[p].tNow) EXCEPT
                        !.limit = settings.rateLimit]
       /\ (pc[p] \in { "limitGet", "syncSettings", "syncGet" }
           /\ pc'[p] # pc[p]) => usage' = usage
       /\ (pc[p] = "idle" /\ pc'[p] = "limitGet") =>
            /\ loc'[p].arg >= 1
            /\ usage' = usage
       /\ (pc[p] = "idle" /\ pc'[p] = "done" /\ last'.loc.kind = "setLimit") =>
            /\ last'.loc.arg < 1
            /\ last'.resp = Thrown(<< "Rate limit must be at least 1" >>)
            /\ last'.loc.reads = 0
            /\ last'.loc.writes = 0
            /\ usage' = usage]_vars

\* C21 witness: inside a window with requests counted, updateRateLimit(3)
\* has stored the limit 3 and left count and resetDate as they were.
SetLimitFrameWitness ==
  /\ last.loc.kind = "setLimit"
  /\ last.loc.arg = 3
  /\ last.loc.seen.count > 0
  /\ last.loc.seen.limit # 3
  /\ usage = [last.loc.seen EXCEPT !.limit = 3]

\* C22: a request whose read or write of the usage record failed during
\* trackUsage is answered success:false, and from the failure on the
\* request leaves the count and the resetDate of the stored record as they
\* were.
PersistenceFailureSurfaces ==
  [][\A p \in Procs :
       /\ ( /\ pc[p] # "done"
            /\ pc'[p] = "done"
            /\ last'.loc.kind = "reply"
            /\ last'.loc.fault # "none" ) => ~last'.resp.success
       /\ ( /\ pc'[p] # pc[p]
            /\ loc[p].kind = "reply"
            /\ loc[p].fault # "none" \/ loc'[p].fault # "none"
                 \/ (pc'[p] = "done" /\ last'.loc.fault # "none")
            /\ usage # None ) =>
            /\ usage'.count = usage.count
            /\ usage'.resetDate = usage.resetDate]_vars

Statelessness ==
  [][ /\ restarts' # restarts =>
           /\ usage' = usage
           /\ settings' = settings
           /\ now' = now
           /\ pc' = pc
           /\ last' = last
      /\ \A p \in Procs :
           (pc[p] # "done" /\ pc'[p] = "done" /\ last'.loc.kind = "reply") =>
             LET l == last'.loc
                 a == GatewayAnswer(l.text, settings, l.seen, l.tNow, l.out)
             IN  /\ last'.resp = a.resp
                 /\ a.wrote => usage' = a.usage
                 /\ ~a.wrote => (usage' = usage /\ l.writes = 0) ]_vars

\* C24 witness: the worker was restarted between two messages, and the
\* second one was answered success:true.
StatelessnessWitness ==
  /\ restarts >= 1
  /\ \A p \in 1..2 : pc[p] = "done"
  /\ last.loc.kind = "reply"
  /\ last.resp.success
  /\ usage.count >= 1

\* C25: once an operation has read or written the ledger and holds a record
\* with window end d, the next operation that reads the ledger before d
\* reads a record with the same window end d.
WindowEndStable ==
  [][\A p \in Procs :
       ( /\ pc[p] # "done"
         /\ pc'[p] = "done"
         /\ last.loc.rec # None
         /\ last'.loc.seen # None
         /\ last'.loc.tNow < last.loc.rec.resetDate ) =>
       last'.loc.seen.resetDate = last.loc.rec.resetDate]_vars

\* The step is a failed click on a control: its error display begins.
FailedClick ==
  \E n \in Nodes :
    /\ ctl[n] # None
    /\ ctl'[n] # None
    /\ ctl'[n].errTimers = ctl[n].errTimers + 1

\* The step changes the child lists of document.body.
ChildListChange ==
  \/ boxes' # boxes
  \/ \E n \in Nodes : (ctl[n] = None) # (ctl'[n] = None)
  \/ toasts' # toasts
  \/ (modal = None) # (modal' = None)

\* The MutationObserver has set its timer in the step.
WatchArmed ==
  /\ debounceTimer' # 0
  /\ [id |-> debounceTimer', left |-> DEBOUNCE_MS] \in timers'

\* C26: an injectButtons pass gives a control to every matched box except
\* those its injection threw in; a failed click (input, channel, rate-limit
\* or provider failure) adds one error toast with a message and leaves the
\* mutation watch armed, as does every later change of the page's child
\* lists; and every error toast is removed again.
FailuresNotFatal ==
  /\ [][scans' = scans + 1 =>
          \A b \in findCommentBoxes(boxes) \ faulty' :
            hasButtonInjected(ctl', b)]_vars
  /\ [][FailedClick =>
          /\ Cardinality(toasts') = Cardinality(toasts) + 1
          /\ toasts \subseteq toasts'
          /\ notice' # << >>
          /\ WatchArmed]_vars
  /\ [][(notice # << >> /\ ChildListChange) => WatchArmed]_vars
  /\ \A i \in ToastIds : (i \in toasts) ~> (i \notin toasts)

\* C26 witness: after a failed click whose toast is gone again, the pass
\* that just ran threw in one box and appended a control for another.
FailuresNotFatalWitness ==
  /\ notice # << >>
  /\ toasts = { }
  /\ faulty # { }
  /\ scans = 1
  /\ sinceMutation = 0
  /\ \E b \in findCommentBoxes(boxes) \ faulty : hasButtonInjected(ctl, b)

\* The step is the sendMessage callback of control n run with a response
\* of the service worker that has success:true.
SuccessCallback(n) ==
  /\ ctl[n] # None
  /\ Len(ctl[n].chan) = 1
  /\ ctl[n].chan[1] # Sent
  /\ ~ctl[n].chan[1].lastError
  /\ ctl[n].chan[1].resp.success
  /\ ctl'[n] # None
  /\ ctl'[n].chan = << >>

\* C27: when the callback of a click runs with a response that has
\* success:true, the control is no longer busy, the modal displays the
\* reply and the usage count of that response, which are the text the
\* generator returned and the count the service worker answered with, and
\* the error state of the control, the toasts and the error message are as
\* they were.
SuccessHandOff ==
  [][\A n \in Nodes :
       SuccessCallback(n) =>
         /\ ~ctl'[n].busy
         /\ modal' # None
         /\ modal'.reply = ctl[n].chan[1].resp.reply
         /\ modal'.usageCount = ctl[n].chan[1].resp.usageCount
         /\ modal'.reply = GeneratedText
         /\ last.resp.success
         /\ modal'.usageCount = last.resp.usageCount
         /\ ctl'[n].error = ctl[n].error
         /\ ctl'[n].errTimers = ctl[n].errTimers
         /\ toasts' = toasts
         /\ notice' = notice]_vars

\* C27 witness: the modal displays a reply with the count the ledger
\* holds, next to an idle control, and no error was ever shown.
SuccessHandOffWitness ==
  /\ modal # None
  /\ modal.reply = GeneratedText
  /\ usage # None
  /\ modal.usageCount = usage.count
  /\ notice = << >>
  /\ toasts = { }
  /\ \E n \in Nodes :
       ctl[n] # None /\ ~ctl[n].busy /\ ~ctl[n].error /\ ctl[n].chan = << >>

\* The step is a click on the idle control n that ends in the catch block
\* of handleButtonClick before anything was sent.
EmptyClick(n) ==
  /\ ctl[n] # None
  /\ ~ctl[n].busy
  /\ ctl'[n] # None
  /\ ctl'[n].chan = ctl[n].chan
  /\ ctl'[n].errTimers = ctl[n].errTimers + 1

\* The step is a click on the control n that sends a message.
SendingClick(n) ==
  /\ ctl[n] # None
  /\ ctl'[n] # None
  /\ Len(ctl'[n].chan) = Len(ctl[n].chan) + 1

\* C30: a click under a post whose container or content is not found
\* extracts no text and ends in the error state with the extraction
\* message, no message in flight and the usage record and the service
\* worker as they were; the usage record changes only while a message is in
\* flight; and a click that extracts a text sends it, with an undefined
\* author and date where their elements are missing.
EmptyExtraction ==
  /\ [](\A d \in Posts :
          /\ (~d.container \/ d.content = None) =>
               RawLength(extractPostData(d).postText) = 0
          /\ (d.container /\ d.author = None) =>
               extractPostData(d).authorName = Undefined
          /\ (d.container /\ d.date = None) =>
               extractPostData(d).postDate = Undefined)
  /\ [][\A n \in Nodes :
          /\ EmptyClick(n) =>
               /\ TrimLength(extracted'.postText) = 0
               /\ ctl'[n].error
               /\ ~ctl'[n].busy
               /\ notice' = EXTRACT_ERROR
               /\ request' = request
               /\ ~InFlight'
               /\ usage' = usage
               /\ pc' = pc
          /\ SendingClick(n) =>
               /\ TrimLength(extracted'.postText) > 0
               /\ request'.payload = extracted'
               /\ ctl'[n].busy
               /\ notice' = notice]_vars
  /\ [][~InFlight => usage' = usage /\ pc' = pc]_vars
  /\ [][(extracted' # extracted /\ TrimLength(extracted'.postText) > 0) =>
          \E n \in Nodes : SendingClick(n)]_vars

\* C30 witness: a message without author and date was sent and answered,
\* the service worker counted it, and a later click that extracted nothing
\* has ended in the error state with the count as it was.
EmptyExtractionWitness ==
  /\ request # None
  /\ request.payload.authorName = Undefined
  /\ request.payload.postDate = Undefined
  /\ extracted # None
  /\ RawLength(extracted.postText) = 0
  /\ notice = EXTRACT_ERROR
  /\ ~InFlight
  /\ last.resp # None
  /\ last.resp.success
  /\ usage # None
  /\ usage.count = last.resp.usageCount
  /\ \E n \in Nodes : ctl[n] # None /\ ctl[n].error /\ ~ctl[n].busy

\* The last two events of a sequence of events.
LastTwo(ev) == IF Len(ev) < 2 THEN ev ELSE SubSeq(ev, Len(ev) - 1, Len(ev))

\* C28: when an insert action that found the editor finishes, in either
\* mode, the editor's content is the text, the last two events the action
\* fired are change and blur, and an input event came before them when the
\* text is not empty.
InsertionModesAgree ==
  [][\A k \in Insertions :
       (ins[k].pc # "done" /\ ins'[k].pc = "done" /\ ins'[k].ok) =>
         /\ content' = ins'[k].text
         /\ LastTwo(ins'[k].fired) = << "change", "blur" >>
         /\ Len(ins'[k].text) > 0 =>
              \E j \in 1..(Len(ins'[k].fired) - 2) :
                ins'[k].fired[j] = "input"]_vars

\* The step ends a GENERATE_REPLY that trackUsage denied.
DenialStep ==
  /\ last' # last
  /\ last'.loc.kind = "reply"
  /\ last'.loc.denied

\* C29 as stated: whenever trackUsage denies a request, resetDate is later
\* than the clock at the time of the report and the text of the remaining
\* time is not "now".
DenialPositiveTime ==
  [][DenialStep =>
       /\ last'.loc.rec.resetDate - now' > 0
       /\ last'.resp.error[3] # "now"]_vars

\* C29 amended: whenever trackUsage denies a request, the record it denies
\* is the stored one unrolled, resetDate is later than the clock reading of
\* the expiry test, the text is that of getTimeUntilReset for the clock at
\* the time of the report, and it is "now" exactly when the clock has
\* reached resetDate by then.
DenialTimeAtTest ==
  [][DenialStep =>
       /\ last'.loc.rec = last'.loc.seen
       /\ last'.loc.writes = 0
       /\ last'.loc.rec.resetDate > last'.loc.tNow
       /\ last'.resp.error[3] # "now" <=> last'.loc.rec.resetDate > now'
       /\ last'.resp.error =
            << "Rate limit", " reached. Resets in ",
               IF last'.loc.rec.resetDate - now' <= 0 THEN "now"
               ELSE IF last'.loc.rec.resetDate - now' >= HOUR_MS
                 THEN ToString((last'.loc.rec.resetDate - now') \div HOUR_MS)
                        \o "h "
                        \o ToString(((last'.loc.rec.resetDate - now') % HOUR_MS)
                                     \div MINUTE_MS) \o "m"
               ELSE IF last'.loc.rec.resetDate - now' >= MINUTE_MS
                 THEN ToString((last'.loc.rec.resetDate - now') \div MINUTE_MS)
                        \o "m"
               ELSE ToString((last'.loc.rec.resetDate - now') \div 1000) \o "s",
               ". Current usage: ", ToString(last'.loc.rec.count), "/",
               ToString(last'.loc.rec.limit) >>]_vars

\* C29 witness: a request was denied on a window that had 1 ms left at the
\* expiry test and none at the report: the message says "Resets in now".
DenialTimeAtTestWitness ==
  /\ last.loc.kind = "reply"
  /\ last.loc.denied
  /\ last.loc.tNow < last.loc.rec.resetDate
  /\ now = last.loc.rec.resetDate
  /\ last.resp.error[3] = "now"

\* C31: every write of the persisted usage record is made by an invocation
\* that runs in the service worker; no other context (options page, popup,
\* content script) writes it.
SingleLedgerWriter ==
  [][usage' # usage =>
       \E p \in Procs :
         /\ pc'[p] # pc[p]
         /\ Context(loc[p].kind) = "serviceWorker"]_vars

\* C32: when the write of a trackUsage is the last one of a manual reset
\* and that trackUsage (the reset has finished and stored its record, no
\* other invocation is in flight), the count it stores is at most 1.
ResetNotLost ==
  [][\A p \in Procs :
       ( /\ pc[p] = "saveUsage"
         /\ pc'[p] = "generate"
         /\ last.loc.kind = "reset"
         /\ usage = last.resp
         /\ \A q \in Procs \ { p } : pc[q] \in { "idle", "done" } )
       => usage'.count <= 1]_vars

\* C33: once a save of the options page has succeeded, the limit of the
\* record that trackUsage compares the count against (the stored record, or
\* the one the roll has just stored) is the rateLimit of the settings.
EnforcedLimitFollows ==
  [][\A p \in Procs :
       ( /\ lastOp.op = "ui"
         /\ lastOp.threw = ""
         /\ loc[p].kind = "reply"
         /\ pc[p] \in { "getUsage", "rollSave" }
         /\ pc'[p] \notin { "getUsage", "rollSettings", "rollSave" } )
       => (IF pc[p] = "getUsage" THEN getUsage(usage, now).limit
                                 ELSE loc[p].rec.limit) = settings.rateLimit]_vars

\* C34: a control that is busy (disabled, aria-busy) is eventually enabled
\* again, whatever the transport hands to the sendMessage callback:
\* lastError, a response, or an undefined response.
BusyResolves ==
  \A n \in Nodes :
    (ctl[n] # None /\ ctl[n].busy) ~> (ctl[n] # None /\ ~ctl[n].busy)

\* C34 witness: the callback has run with an undefined response; the control
\* is enabled and shows the error of the exception thrown.
BusyResolvesWitness ==
  /\ \E n \in Nodes :
       /\ ctl[n] # None
       /\ ~ctl[n].busy
       /\ ctl[n].error
       /\ ctl[n].chan = << >>
  /\ request # None
  /\ notice = TYPE_ERROR

\* C35: of the injectButtons passes that follow one another with no change
\* of the page between them but their own, only the first appends controls:
\* the second appends nothing and sets no timer, and there is no third.
RescansQuiesce ==
  [][scans' = scans + 1 =>
       /\ scans <= 1
       /\ scans = 1 => (injectedCount(ctl, boxes) = 0 /\ ctl' = ctl /\ timers' = { })
    ]_vars

\* C35 witness: with a reply modal of the extension in the page, a pass has
\* put back a control the host had removed, the pass set off by that
\* control has run, and no timer is pending.
RescansQuiesceWitness ==
  /\ scans = 2
  /\ timers = { }
  /\ modal # None
  /\ \E n \in Nodes : ctl[n] # None

\* C36: a control is attached only at the anchor of a comment box of the
\* page that had none: a toolbar inside the box if there is one, else a form
\* inside it, else the box; the anchor is the box or a descendant of it, and
\* right after the pass hasButtonInjected holds for every comment box.
AnchorInsideBox ==
  [][ /\ \A n \in Nodes :
           (ctl[n] = None /\ ctl'[n] # None) =>
             \E b \in findCommentBoxes(boxes) :
               /\ ~hasButtonInjected(ctl, b)
               /\ n \in Descendants(b) \cup { b }
               /\ IF Descendants(b) \cap ToolbarNodes # { }
                    THEN n \in ToolbarNodes
                    ELSE IF Descendants(b) \cap FormNodes # { }
                      THEN n \in FormNodes
                      ELSE n = b
               /\ hasButtonInjected(ctl', b)
      /\ scans' = scans + 1 =>
           \A b \in findCommentBoxes(boxes) : hasButtonInjected(ctl', b)
    ]_vars

\* C36 witness: a pass has attached a control to the toolbar 5, inside the
\* comment boxes 3 and 4, and the pass set off by that has run.
AnchorInsideBoxWitness ==
  /\ scans = 2
  /\ 3 \in boxes
  /\ ctl[5] # None
  /\ ctl[3] = None /\ ctl[4] = None
  /\ hasButtonInjected(ctl, 3) /\ hasButtonInjected(ctl, 4)

\* C37: no control carries the loading state (disabled, aria-busy) and the
\* error class at once.
BusyErrorExclusive ==
  \A n \in Nodes : ctl[n] # None => ~(ctl[n].busy /\ ctl[n].error)

\* C38: at most one reply modal is attached to the page at any time, and it
\* is the one currentModal refers to: a call of displayReply leaves exactly
\* the modal it has made, whatever was attached before.
AtMostOneModal ==
  /\ Cardinality(modals.attached) <= 1
  /\ modals.attached \subseteq { modals.current }
  /\ modal # None <=> modals.attached # { }

\* C38 witness: the second reply of the page, answered to the control on
\* the toolbar while the control on the form waits for its own, is in the
\* one modal attached.
AtMostOneModalWitness ==
  /\ modals.attached = { modals.current }
  /\ modal # None /\ modal.usageCount = 2
  /\ request # None /\ request.id = 2
  /\ ctl[2] # None /\ ctl[2].busy
  /\ ctl[5] # None /\ ~ctl[5].busy /\ ctl[5].chan = << >>

\* C39: when handleToneChange of the popup completes, every field of the
\* persisted preferences but the tone has the value it had just before the
\* write, the value saved most recently.
ToneChangeKeepsOthers ==
  [][\A p \in Procs :
       (pc[p] = "toneSave" /\ pc'[p] = "done") =>
         \A f \in SettingsFields \ { "tone" } :
           getSettings(sync')[f] = getSettings(sync)[f]
    ]_vars

\* C40: at most one interval timer of the keep-alive is alive in the
\* worker, the one keepAliveInterval refers to, whatever loads, messages
\* and browser starts there were; a tick of it changes nothing stored and
\* nothing of an invocation and answers nothing; and with the keep-alive
\* running the response to every GENERATE_REPLY and the usage record stored
\* when it ends are those handleGenerateReply gives as a function of the
\* request, the stored settings and usage record, the clock and the
\* generator outcome alone.
KeepAliveInvisible ==
  /\ [](keepAliveTimers <= 1 /\ (keepAliveTimers = 1 <=> keepAliveInterval # 0))
  /\ [][ /\ pings' # pings =>
               /\ usage' = usage /\ settings' = settings /\ sync' = sync
               /\ pc' = pc /\ loc' = loc /\ last' = last
               /\ now' = now
          /\ \A p \in Procs :
               (pc[p] # "done" /\ pc'[p] = "done" /\ last'.loc.kind = "reply") =>
                 LET l == last'.loc
                     a == GatewayAnswer(l.text, settings, l.seen, l.tNow, l.out)
                 IN  /\ last'.resp = a.resp
                     /\ a.wrote => usage' = a.usage
                     /\ ~a.wrote => (usage' = usage /\ l.writes = 0) ]_vars

\* C40 witness: the worker was restarted, its keep-alive timer has ticked
\* as often as it may, one timer is alive, and the message handled last was
\* answered success:true.
KeepAliveInvisibleWitness ==
  /\ restarts >= 1
  /\ pings = MaxPings
  /\ keepAliveTimers = 1
  /\ \A p \in 1..2 : pc[p] = "done"
  /\ last.loc.kind = "reply"
  /\ last.resp.success
  /\ usage.count >= 1

====
